---- MODULE Spec2Model ----
(***************************************************************************)
(* Year-rolling analytics dashboard (src/app.py): the session state of the *)
(* Streamlit script, the handlers that write it, and the analytics         *)
(* functions the handlers call (services.compute_year_rolling and friends, *)
(* which the script imports at src/app.py:589-608).                        *)
(***************************************************************************)
EXTENDS Integers, Sequences, FiniteSets, TLC

VARIABLES
    long_df,         \* the parsed long-form table handed to process_long_dataframe
    settings,        \* st.session_state.settings
    data_monthly,    \* st.session_state.data_monthly
    data_year,       \* st.session_state.data_year
    saved_views,     \* st.session_state.saved_views
    compare_params,  \* st.session_state.compare_params
    compare_results, \* st.session_state.compare_results
    page,            \* the page the last script run rendered
    widgets,         \* the keyed widget values Streamlit keeps between runs
    rendered,        \* what the last script run showed or handed on
    nav              \* the navigation and tour keys of st.session_state

vars == <<long_df, settings, data_monthly, data_year, saved_views,
          compare_params, compare_results, page, widgets, rendered, nav>>

dataVars == <<data_monthly, data_year>>
viewVars == <<saved_views, compare_params, compare_results>>
uiVars == <<page, widgets, rendered>>

-----------------------------------------------------------------------------
(* Nullable numbers.  pandas cells and KPI values are floats, NaN or None.  *)
(* A number is an exact fraction num/den in lowest terms with den > 0.      *)

NaN == [kind |-> "nan"]
None == [kind |-> "none"]

Abs(x) == IF x < 0 THEN -x ELSE x

RECURSIVE GCD(_, _)
GCD(a, b) == IF b = 0 THEN a ELSE GCD(b, a % b)

Frac(n, d) ==
    LET g == GCD(Abs(n), Abs(d))
        s == IF d < 0 THEN -1 ELSE 1
    IN  [kind |-> "num", num |-> s * (n \div g), den |-> s * (d \div g)]

Num(v) == [kind |-> "num", num |-> v, den |-> 1]

IsNum(x) == x.kind = "num"
IsNull(x) == x.kind # "num"

FAdd(a, b) == Frac(a.num * b.den + b.num * a.den, a.den * b.den)
FSub(a, b) == Frac(a.num * b.den - b.num * a.den, a.den * b.den)
FMul(a, b) == Frac(a.num * b.num, a.den * b.den)
FDiv(a, b) == Frac(a.num * b.den, a.den * b.num)
FLeq(a, b) == a.num * b.den <= b.num * a.den
FLt(a, b) == a.num * b.den < b.num * a.den

\* Python's round(): to the nearest integer, a tie to the even one.
RoundHalfEven(x) ==
    LET q == x.num \div x.den
        r == x.num % x.den
    IN  IF 2 * r < x.den THEN q
        ELSE IF 2 * r > x.den THEN q + 1
        ELSE IF q % 2 = 0 THEN q ELSE q + 1

\* int(): towards zero.
Truncate(x) ==
    IF x.num >= 0 THEN x.num \div x.den ELSE -((-x.num) \div x.den)

-----------------------------------------------------------------------------
(* Bounds of the explored inputs.                                           *)

MaxMonths == 3      \* short series: every series of 1..MaxMonths cells
MaxAmount == 1      \* cell amounts range over -1..MaxAmount
MaxWindow == 3      \* rolling windows 1..MaxWindow, and the default of 12

(* A pandas table: None before the first ingestion, else rows per product.  *)
Table(rows) == [kind |-> "table", rows |-> rows]
IsTable(t) == t.kind = "table"

Products == {"A", "B"}

Max2(a, b) == IF a >= b THEN a ELSE b
Min2(a, b) == IF a <= b THEN a ELSE b

-----------------------------------------------------------------------------
(* services.fill_missing_months, compute_year_rolling, compute_slopes.      *)

YoyLag == 12

\* One product's series under the missing-month policy.
FillMissingSeries(raw, policy) ==
    [m \in 1..Len(raw) |->
        [amount |-> IF IsNull(raw[m]) /\ policy = "zero_fill" THEN Num(0) ELSE raw[m],
         is_missing |-> IsNull(raw[m])]]

fill_missing_months(df, policy) ==
    [p \in DOMAIN df |-> FillMissingSeries(df[p], policy)]

\* The product's first observed month (Len+1 when it has none).
FirstObserved(s) ==
    IF \E m \in 1..Len(s) : ~s[m].is_missing
    THEN CHOOSE m \in 1..Len(s) :
            /\ ~s[m].is_missing
            /\ \A k \in 1..(m - 1) : s[k].is_missing
    ELSE Len(s) + 1

RECURSIVE SumRange(_, _, _)
SumRange(s, lo, hi) ==
    IF lo > hi THEN Num(0)
    ELSE FAdd(SumRange(s, lo, hi - 1),
              IF IsNull(s[hi].amount) THEN Num(0) ELSE s[hi].amount)

\* The first month of the window ending at M.
WindowStart(M, window) == M - window + 1

YearSum(s, M, window, policy) ==
    IF policy = "mark_missing"
    THEN IF \/ WindowStart(M, window) < 1
            \/ \E m \in WindowStart(M, window)..M : IsNull(s[m].amount)
         THEN NaN
         ELSE SumRange(s, WindowStart(M, window), M)
    ELSE IF M < FirstObserved(s)
         THEN NaN
         ELSE SumRange(s, Max2(1, WindowStart(M, window)), M)

Delta(ys, M) ==
    IF M > 1 /\ IsNum(ys[M]) /\ IsNum(ys[M - 1])
    THEN FSub(ys[M], ys[M - 1])
    ELSE NaN

\* Yoy without the zero-denominator guard: the quotient by 0 is infinite.
Yoy_Unguarded(ys, M) ==
    IF M > YoyLag /\ IsNum(ys[M]) /\ IsNum(ys[M - YoyLag])
    THEN IF ys[M - YoyLag].num = 0
         THEN [kind |-> "inf"]
         ELSE FSub(FDiv(ys[M], ys[M - YoyLag]), Num(1))
    ELSE NaN

\* Yoy against the previous month instead of the month a year before.
Yoy_LagOne(ys, M) ==
    IF M > 1 /\ IsNum(ys[M]) /\ IsNum(ys[M - 1]) /\ ys[M - 1].num # 0
    THEN FSub(FDiv(ys[M], ys[M - 1]), Num(1))
    ELSE NaN

Yoy(ys, M) ==
    IF M > YoyLag /\ IsNum(ys[M]) /\ IsNum(ys[M - YoyLag]) /\ ys[M - YoyLag].num # 0
    THEN FSub(FDiv(ys[M], ys[M - YoyLag]), Num(1))
    ELSE NaN

compute_year_rolling(df, window, policy) ==
    [p \in DOMAIN df |->
        LET s == df[p]
            ys == [m \in 1..Len(s) |-> YearSum(s, m, window, policy)]
        IN  [m \in 1..Len(s) |->
                [year_sum |-> ys[m],
                 yoy |-> Yoy(ys, m),
                 delta |-> Delta(ys, m),
                 slope_beta |-> NaN]]]

\* The trailing n points of a sequence; all of it when n <= 0.
Trailing(seq, n) ==
    IF n <= 0 \/ n >= Len(seq) THEN seq
    ELSE SubSeq(seq, Len(seq) - n + 1, Len(seq))

\* Sum over i in 1..upto of (k*(i-1) - sx) * pts[i]: the numerator of the
\* least-squares slope of pts against x = 0..k-1.
RECURSIVE SlopeNumerRange(_, _, _, _, _)
SlopeNumerRange(pts, k, sx, lo, hi) ==
    IF lo > hi THEN Num(0)
    ELSE IF lo = hi THEN FMul(Num(k * (lo - 1) - sx), pts[lo])
    ELSE LET mid == (lo + hi) \div 2
         IN  FAdd(SlopeNumerRange(pts, k, sx, lo, mid),
                  SlopeNumerRange(pts, k, sx, mid + 1, hi))

SlopeNumer(pts, k, sx, upto) == SlopeNumerRange(pts, k, sx, 1, upto)

OlsSlope(pts) ==
    LET k == Len(pts)
        sx == (k * (k - 1)) \div 2
        sxx == ((k - 1) * k * (2 * k - 1)) \div 6
    IN  IF k < 2 THEN NaN
        ELSE FDiv(SlopeNumer(pts, k, sx, k), Num(k * sxx - sx * sx))

IsNumCell(x) == IsNum(x)

\* slope_beta: the least-squares slope of year_sum over the product's trailing
\* last_n non-null points.
compute_slopes(year_rows, last_n) ==
    [p \in DOMAIN year_rows |->
        LET rows == year_rows[p]
            ys == [m \in 1..Len(rows) |-> rows[m].year_sum]
            beta == OlsSlope(Trailing(SelectSeq(ys, IsNumCell), last_n))
        IN  [m \in 1..Len(rows) |-> [rows[m] EXCEPT !.slope_beta = beta]]]

\* The non-null year_sum values of product p in month order.
YearSumSeries(rows, p) ==
    SelectSeq([m \in 1..Len(rows[p]) |-> rows[p][m].year_sum], IsNumCell)

\* services.slopes_snapshot: per product the least-squares slope of year_sum
\* over the trailing n non-null points, all of them when n <= 0; slope_points
\* are the points fitted.
slope_points(rows, p, n) == Trailing(YearSumSeries(rows, p), n)
slopes_snapshot(rows, n) ==
    [p \in DOMAIN rows |-> OlsSlope(slope_points(rows, p, n))]

\* services.shape_flags classifies the trailing window points of a product.
shape_points(rows, p, window) == Trailing(YearSumSeries(rows, p), window)

-----------------------------------------------------------------------------
(* Industry templates and the settings of a new session.                   *)

TemplateKeys == {"restaurant", "retail", "service"}
DEFAULT_TEMPLATE_KEY == "retail"

INDUSTRY_TEMPLATES ==
    [restaurant |-> [yoy_threshold |-> Frac(-8, 100),
                     delta_threshold |-> Num(-200000),
                     slope_threshold |-> Frac(-7, 10)],
     retail |-> [yoy_threshold |-> Frac(-6, 100),
                 delta_threshold |-> Num(-300000),
                 slope_threshold |-> Frac(-5, 10)],
     service |-> [yoy_threshold |-> Frac(-4, 100),
                  delta_threshold |-> Num(-150000),
                  slope_threshold |-> Frac(-4, 10)]]

\* The recommended metrics of each template, every metric by its name
\* (src/app.py:1660-1679, 1735-1754, 1810-1829).
RECOMMENDED_METRICS ==
    [restaurant |-> <<"average_spend", "seat_occupancy", "fl_cost_ratio">>,
     retail |-> <<"inventory_turnover", "average_spend", "gross_margin">>,
     service |-> <<"utilization", "contract_retention", "sales_per_hour">>]

DefaultSettings ==
    [window |-> 12,
     last_n |-> 12,
     missing_policy |-> "zero_fill",
     yoy_threshold |-> INDUSTRY_TEMPLATES[DEFAULT_TEMPLATE_KEY].yoy_threshold,
     delta_threshold |-> INDUSTRY_TEMPLATES[DEFAULT_TEMPLATE_KEY].delta_threshold,
     slope_threshold |-> INDUSTRY_TEMPLATES[DEFAULT_TEMPLATE_KEY].slope_threshold,
     currency_unit |-> "yen",
     industry_template |-> DEFAULT_TEMPLATE_KEY,
     template_kpi_targets |-> RECOMMENDED_METRICS[DEFAULT_TEMPLATE_KEY]]

-----------------------------------------------------------------------------
(* process_long_dataframe: normalise, roll, add slopes, store both tables.  *)

\* int(settings.get(key, 12) or 12)
IntOr12(v) == IF v = 0 THEN 12 ELSE v

NormalizedOf(df, s) == fill_missing_months(df, s.missing_policy)

\* The pipeline with last_n handed over as the rolling window.
YearTableOf_SwappedWindow(normalized, s) ==
    compute_slopes(
        compute_year_rolling(normalized, IntOr12(s.last_n), s.missing_policy),
        IntOr12(s.window))

\* The pipeline with the policy not handed on to compute_year_rolling.
YearTableOf_PolicyDropped(normalized, s) ==
    compute_slopes(
        compute_year_rolling(normalized, IntOr12(s.window), "zero_fill"),
        IntOr12(s.last_n))

YearTableOf(normalized, s) ==
    compute_slopes(
        compute_year_rolling(normalized, IntOr12(s.window), s.missing_policy),
        IntOr12(s.last_n))

process_long_dataframe ==
    /\ data_monthly' = Table(NormalizedOf(long_df, settings))
    /\ data_year' = Table(YearTableOf(NormalizedOf(long_df, settings), settings))
    /\ UNCHANGED <<long_df, settings, viewVars, uiVars, nav>>

\* A Python dict is a function from its keys; {} has none.
EmptyDict == [k \in {} |-> None]
DictUpdate(d, u) ==
    [k \in DOMAIN d \cup DOMAIN u |-> IF k \in DOMAIN u THEN u[k] ELSE d[k]]
Get(d, k, default) == IF k \in DOMAIN d THEN d[k] ELSE default

\* Session keys as the script's first run creates them (src/app.py:1911-1975).
\* (an int widget with no value holds 0, a string widget "")
NoWidgets == [sidebar_period |-> 0, sidebar_unit |-> ""]
NothingRendered == [what |-> "nothing"]

\* A session key that does not exist (or a pop() that found none) reads "".
Absent == ""

\* The five entries of the primary menu (src/app.py:5240-5275).
PrimaryKeys == {"home", "ranking", "analysis", "monitor", "data"}

\* The navigation and tour keys before the script's first run: the tour keys
\* are created at src/app.py:1958-1967, the nav_* and _pending_nav_* keys do
\* not exist yet.  rerun is an st.rerun() that has been asked for.
NoNav ==
    [nav_page |-> Absent, nav_primary |-> Absent,
     nav_sub |-> [P \in PrimaryKeys |-> Absent],
     nav_category |-> Absent,
     pending_page |-> Absent, pending_category |-> Absent,
     pending_primary |-> Absent,
     pending_sub |-> [P \in PrimaryKeys |-> Absent],
     tour_active |-> TRUE, tour_step_index |-> 0, tour_pending_nav |-> Absent,
     onboarding_seen |-> FALSE,
     rerun |-> FALSE]

InitSessionKeys ==
    /\ data_monthly = None
    /\ data_year = None
    /\ saved_views = EmptyDict
    /\ compare_params = EmptyDict
    /\ compare_results = None
    /\ widgets = NoWidgets
    /\ rendered = NothingRendered

-----------------------------------------------------------------------------
(* The rolling pipeline on bounded inputs.                                  *)

CellValues == {NaN} \cup {Num(v) : v \in -1..MaxAmount}

\* Every series of 1..MaxMonths cells.
ShortSeries == UNION {[1..n -> CellValues] : n \in 1..MaxMonths}

\* Series long enough for a year-over-year comparison: a free first cell, a
\* free last cell and one value repeated in between.
LongLengths == {YoyLag + 1, YoyLag + 2, 2 * YoyLag}

HeadFillTail(h, f, t, n) ==
    [m \in 1..n |-> IF m = 1 THEN h ELSE IF m = n THEN t ELSE f]

LongSeries ==
    {HeadFillTail(h, f, t, n) :
        h \in CellValues, f \in CellValues, t \in CellValues, n \in LongLengths}

\* Fourteen months with no gap: 1,000,000 then 100,000 a month, 160,000 last.
EndToEndSeries ==
    [m \in 1..(YoyLag + 2) |->
        IF m = 1 THEN Num(1000000)
        ELSE IF m = YoyLag + 2 THEN Num(160000)
        ELSE Num(100000)]

InputSeries == ShortSeries \cup LongSeries \cup {EndToEndSeries}

\* The other product of the table carries the same cells in reverse order.
Reversed(a) == [m \in 1..Len(a) |-> a[Len(a) + 1 - m]]

RollWindows == (1..MaxWindow) \cup {12}
Policies == {"zero_fill", "mark_missing"}

InitRolling ==
    /\ \E a \in InputSeries :
            long_df = [p \in Products |-> IF p = "A" THEN a ELSE Reversed(a)]
    /\ \E w \in RollWindows, pol \in Policies :
            settings = [DefaultSettings EXCEPT !.window = w, !.missing_policy = pol]
    /\ InitSessionKeys
    /\ page = "import"
    /\ nav = NoNav

NextRolling == process_long_dataframe

SpecRolling == InitRolling /\ [][NextRolling]_vars

-----------------------------------------------------------------------------
(* The session: one action per script run of a page.                        *)

Pages == {"import", "dashboard", "compare", "alert", "settings", "saved"}

\* Tables a user uploads in the session.
SessionUploads ==
    {[p \in Products |-> IF p = "A" THEN a ELSE Reversed(a)] :
        a \in {<<Num(1), NaN, Num(1), Num(2)>>, <<Num(2), Num(1), Num(0), Num(1)>>}}

DataLoaded == data_year # None /\ data_monthly # None

\* Keyed widgets of a page lose their value once a run does not render them.
LeaveDashboard == widgets' = NoWidgets

\* The last month of the table (every product covers the same months).
LatestMonth(rows) == Len(rows[CHOOSE p \in DOMAIN rows : TRUE])

\* ---- Data import page (src/app.py:6851-7228) ----

\* The settings had an unknown key fallen back to the default template, as
\* get_template_config does.
apply_industry_template_DefaultFallback(s, template_key) ==
    LET key == IF template_key \in DOMAIN INDUSTRY_TEMPLATES
               THEN template_key ELSE DEFAULT_TEMPLATE_KEY
    IN  [s EXCEPT
            !.yoy_threshold = INDUSTRY_TEMPLATES[key].yoy_threshold,
            !.delta_threshold = INDUSTRY_TEMPLATES[key].delta_threshold,
            !.slope_threshold = INDUSTRY_TEMPLATES[key].slope_threshold,
            !.industry_template = key,
            !.template_kpi_targets = RECOMMENDED_METRICS[key]]

\* src/app.py:1999-2012
apply_industry_template(s, template_key) ==
    IF template_key \notin DOMAIN INDUSTRY_TEMPLATES THEN s
    ELSE [s EXCEPT
            !.yoy_threshold = INDUSTRY_TEMPLATES[template_key].yoy_threshold,
            !.delta_threshold = INDUSTRY_TEMPLATES[template_key].delta_threshold,
            !.slope_threshold = INDUSTRY_TEMPLATES[template_key].slope_threshold,
            !.industry_template = template_key,
            !.template_kpi_targets = RECOMMENDED_METRICS[template_key]]

get_active_template_key(s) ==
    IF s.industry_template \in DOMAIN INDUSTRY_TEMPLATES
    THEN s.industry_template
    ELSE DEFAULT_TEMPLATE_KEY

\* A run of the import page with nothing pressed.
ImportRender ==
    /\ page' = "import"
    /\ LeaveDashboard
    /\ UNCHANGED <<long_df, settings, dataVars, viewVars, rendered, nav>>

\* The template selectbox changed to another template.
ImportSelectTemplate(selected_template) ==
    /\ page = "import"
    /\ selected_template # get_active_template_key(settings)
    /\ settings' = apply_industry_template(settings, selected_template)
    /\ UNCHANGED <<long_df, dataVars, viewVars, uiVars, nav>>

\* "Convert & ingest", a sample or the demo data set: the parsed table goes
\* through process_long_dataframe.
ImportIngest(df) ==
    /\ page = "import"
    /\ long_df' = df
    /\ data_monthly' = Table(NormalizedOf(df, settings))
    /\ data_year' = Table(YearTableOf(NormalizedOf(df, settings), settings))
    /\ UNCHANGED <<settings, viewVars, uiVars, nav>>

\* ---- Dashboard (src/app.py:7230-7408) ----

PeriodOptions == {12, 24, 36}
UnitOptions == {"yen", "thousand_yen", "million_yen"}

\* The value a keyed selectbox returns: the user's choice in this run, else
\* the value it kept from the previous run, else the option at its index.
KeyedValue(choice, kept, default, unset) ==
    IF choice # unset THEN choice ELSE IF kept # unset THEN kept ELSE default

\* A run of the Dashboard; period_choice / unit_choice are the options the
\* user picked in the selectboxes (0 / "": none picked).
DashboardRun(period_choice, unit_choice) ==
    /\ page' = "dashboard"
    /\ (period_choice # 0 \/ unit_choice # "") => (page = "dashboard" /\ DataLoaded)
    /\ IF ~DataLoaded
       THEN \* require_data() stops the run before any widget is drawn
            /\ LeaveDashboard
            /\ UNCHANGED settings
       ELSE LET default_period == IF settings.window \in PeriodOptions
                                  THEN settings.window ELSE 12
                default_unit == IF settings.currency_unit \in UnitOptions
                                THEN settings.currency_unit ELSE "yen"
                period_value == KeyedValue(period_choice, widgets.sidebar_period,
                                           default_period, 0)
                unit_value == KeyedValue(unit_choice, widgets.sidebar_unit,
                                         default_unit, "")
            IN  /\ settings' = [settings EXCEPT !.window = period_value,
                                                !.currency_unit = unit_value]
                /\ widgets' = [sidebar_period |-> period_value,
                               sidebar_unit |-> unit_value]
    /\ UNCHANGED <<long_df, dataVars, viewVars, rendered, nav>>

\* ---- Settings (src/app.py:8820-8868) ----

SettingsWindowMin == 3
SettingsWindowMax == 24
SettingsLastNMin == 3
SettingsLastNMax == 36

\* st.number_input raises when its default value lies outside
\* [min_value, max_value]; the run ends there.
SettingsWidgetsRaise(s) ==
    \/ s.window < SettingsWindowMin
    \/ s.window > SettingsWindowMax
    \/ s.last_n < SettingsLastNMin
    \/ s.last_n > SettingsLastNMax

\* A run of the Settings page: every widget's value is written back to the
\* settings; window_input / unit_input / th_input are what the user typed or
\* picked in this run (0 / "" / None: left alone).
SettingsRun(window_input, unit_input, th_input) ==
    /\ page' = "settings"
    /\ LeaveDashboard
    /\ (window_input # 0 \/ unit_input # "" \/ th_input # None) =>
            (page = "settings" /\ ~SettingsWidgetsRaise(settings))
    /\ IF SettingsWidgetsRaise(settings)
       THEN UNCHANGED settings
       ELSE settings' = [settings EXCEPT
                !.window = IF window_input # 0 THEN window_input ELSE @,
                !.yoy_threshold = IF th_input # None THEN th_input.yoy_threshold ELSE @,
                !.delta_threshold = IF th_input # None THEN th_input.delta_threshold ELSE @,
                !.slope_threshold = IF th_input # None THEN th_input.slope_threshold ELSE @,
                !.currency_unit = IF unit_input # "" THEN unit_input ELSE @]
    /\ UNCHANGED <<long_df, dataVars, viewVars, rendered, nav>>

\* The year table had the button recomputed under the default window.
RecomputedYear_DefaultWindow(monthly, s) ==
    Table(compute_slopes(
        compute_year_rolling(monthly.rows, DefaultSettings.window, s.missing_policy),
        s.last_n))

\* The year table the recompute button stores (src/app.py:8861-8866).
RecomputedYear(monthly, s) ==
    Table(compute_slopes(
        compute_year_rolling(monthly.rows, s.window, s.missing_policy),
        s.last_n))

\* The recompute button: a warning while no data is loaded, else the year
\* table is computed again from data_monthly and stored.
SettingsRecompute ==
    /\ page = "settings"
    /\ ~SettingsWidgetsRaise(settings)
    /\ rendered' = [what |-> "recompute", loaded |-> data_monthly # None]
    /\ UNCHANGED <<long_df, settings, data_monthly, viewVars, page, widgets, nav>>
    /\ IF data_monthly = None
       THEN UNCHANGED data_year
       ELSE data_year' = RecomputedYear(data_monthly, settings)

\* ---- Saved views (src/app.py:8871-8898) ----

ViewNames == {"v1"}

\* The view the save button stores: copies of the settings and of the compare
\* parameters (src/app.py:8882-8885).
SavedView(s, cparams) == [settings |-> s, compare |-> cparams]

\* The settings had the apply button updated the stored copy with the live
\* settings.
AppliedSettings_LiveWins(s, view) == DictUpdate(view.settings, s)

\* The settings after the apply button: settings.update(v["settings"])
\* (src/app.py:8895).
AppliedSettings(s, view) == DictUpdate(s, view.settings)

SavedRender ==
    /\ page' = "saved"
    /\ LeaveDashboard
    /\ UNCHANGED <<long_df, settings, dataVars, viewVars, rendered, nav>>

SavedSave(name) ==
    /\ page = "saved"
    /\ saved_views' = [k \in DOMAIN saved_views \cup {name} |->
            IF k = name THEN SavedView(settings, compare_params) ELSE saved_views[k]]
    /\ rendered' = [what |-> "view_saved", name |-> name]
    /\ UNCHANGED <<long_df, settings, dataVars, compare_params, compare_results,
                   page, widgets, nav>>

\* The apply button of view k; the record of the run notes what the view
\* replaced.
SavedApply(k) ==
    /\ page = "saved"
    /\ k \in DOMAIN saved_views
    /\ rendered' = [what |-> "view_applied", name |-> k,
                    changed |-> [settings |-> settings # saved_views[k].settings,
                                 compare |-> compare_params # saved_views[k].compare]]
    /\ settings' = AppliedSettings(settings, saved_views[k])
    /\ compare_params' = saved_views[k].compare
    /\ compare_results' = None
    /\ UNCHANGED <<long_df, dataVars, saved_views, page, widgets, nav>>

\* ---- Alerts (src/app.py:8796-8817) ----

\* services.build_alerts: the products with, at end_month, a non-null yoy,
\* delta or slope_beta at or below its threshold.
build_alerts_NullTriggers(year_rows, end_month, yoy_threshold, delta_threshold, slope_threshold) ==
    {p \in DOMAIN year_rows :
        LET r == year_rows[p][end_month]
        IN  \/ IsNull(r.yoy) \/ FLeq(r.yoy, yoy_threshold)
            \/ IsNull(r.delta) \/ FLeq(r.delta, delta_threshold)
            \/ IsNull(r.slope_beta) \/ FLeq(r.slope_beta, slope_threshold)}

build_alerts(year_rows, end_month, yoy_threshold, delta_threshold, slope_threshold) ==
    {p \in DOMAIN year_rows :
        LET r == year_rows[p][end_month]
        IN  \/ IsNum(r.yoy) /\ FLeq(r.yoy, yoy_threshold)
            \/ IsNum(r.delta) /\ FLeq(r.delta, delta_threshold)
            \/ IsNum(r.slope_beta) /\ FLeq(r.slope_beta, slope_threshold)}

\* A run of the Alerts page with end month end_m chosen in the sidebar.
AlertsRun(end_m) ==
    /\ page' = "alert"
    /\ LeaveDashboard
    /\ IF ~DataLoaded
       THEN \* require_data() stops the run
            rendered' = [what |-> "stopped"]
       ELSE /\ end_m \in 1..LatestMonth(data_year.rows)
            /\ rendered' =
                    [what |-> "alerts",
                     end_m |-> end_m,
                     codes |-> build_alerts(data_year.rows, end_m,
                                            settings.yoy_threshold,
                                            settings.delta_threshold,
                                            settings.slope_threshold)]
    /\ UNCHANGED <<long_df, settings, dataVars, viewVars, nav>>

\* ---- Compare view (src/app.py:7484-7800) ----

\* The characters of each product's display_name (product_name, else the code).
DisplayName == [A |-> <<"A">>, B |-> <<"B">>]
ProductOrder == <<"A", "B">>

Lower(c) == IF c = "A" THEN "a" ELSE IF c = "B" THEN "b" ELSE c
LowerSeq(text) == [i \in 1..Len(text) |-> Lower(text[i])]

\* str.contains(sub, case=False)
Contains(text, sub) ==
    \E i \in 0..(Len(text) - Len(sub)) :
        SubSeq(LowerSeq(text), i + 1, i + Len(sub)) = LowerSeq(sub)

\* services.latest_yearsum_snapshot: one row per product at end_m; the
\* snapshot is kept as the set of its product codes.
latest_yearsum_snapshot(rows, end_m) == DOMAIN rows

SearchSnapshot_Unfiltered(snapshot, search) == snapshot

\* The search box: an empty text filters nothing.
SearchSnapshot(snapshot, search) ==
    IF search = <<>> THEN snapshot
    ELSE {p \in snapshot : Contains(DisplayName[p], search)}

YearSumAt(rows, end_m, p) == rows[p][end_m].year_sum
NumCodes(rows, end_m, S) == {p \in S : IsNum(YearSumAt(rows, end_m, p))}

\* Codes of S in the snapshot's row order.
Opts(S) ==
    LET InS(p) == p \in S
    IN  SelectSeq(ProductOrder, InS)

RECURSIVE SortDesc(_, _, _)
\* The year_sum values of the products in S, largest first.
SortDesc(rows, end_m, S) ==
    IF S = {} THEN <<>>
    ELSE LET m == CHOOSE p \in S :
                    \A q \in S : FLeq(YearSumAt(rows, end_m, q), YearSumAt(rows, end_m, p))
         IN  <<YearSumAt(rows, end_m, m)>> \o SortDesc(rows, end_m, S \ {m})

\* rank column: 1 = largest year_sum.
RankOf(rows, end_m, p) ==
    1 + Cardinality({q \in NumCodes(rows, end_m, DOMAIN rows) :
            FLt(YearSumAt(rows, end_m, p), YearSumAt(rows, end_m, q))})

\* The p-th percentile of descending values, linearly interpolated.
Percentile(desc, pct) ==
    LET n == Len(desc)
        asc == [i \in 1..n |-> desc[n + 1 - i]]
        lo == (pct * (n - 1)) \div 100
        rest == Frac((pct * (n - 1)) % 100, 100)
    IN  IF lo + 2 > n THEN asc[lo + 1]
        ELSE FAdd(asc[lo + 1], FMul(FSub(asc[lo + 2], asc[lo + 1]), rest))

NoBand == [low |-> None, high |-> None]
Band(a, b) == [low |-> IF FLeq(a, b) THEN a ELSE b, high |-> IF FLeq(a, b) THEN b ELSE a]

\* services.resolve_band over the snapshot rows S.
resolve_band(rows, end_m, S, mode, params) ==
    LET num == NumCodes(rows, end_m, S)
        desc == SortDesc(rows, end_m, num)
    IN  IF num = {} THEN NoBand
        ELSE IF mode = "amount" THEN
            IF {"low_amount", "high_amount"} \subseteq DOMAIN params
            THEN [low |-> Num(params["low_amount"]), high |-> Num(params["high_amount"])]
            ELSE NoBand
        ELSE IF mode = "two_products" THEN
            IF /\ {"prod_a", "prod_b"} \subseteq DOMAIN params
               /\ params["prod_a"] \in num
               /\ params["prod_b"] \in num
            THEN Band(YearSumAt(rows, end_m, params["prod_a"]),
                      YearSumAt(rows, end_m, params["prod_b"]))
            ELSE NoBand
        ELSE IF mode = "percentile" THEN
            IF {"p_low", "p_high"} \subseteq DOMAIN params
            THEN [low |-> Percentile(desc, params["p_low"]),
                  high |-> Percentile(desc, params["p_high"])]
            ELSE NoBand
        ELSE IF mode = "rank" THEN
            IF /\ {"r_low", "r_high"} \subseteq DOMAIN params
               /\ params["r_low"] \in 1..Len(desc)
               /\ params["r_high"] \in 1..Len(desc)
            THEN Band(desc[params["r_low"]], desc[params["r_high"]])
            ELSE NoBand
        ELSE \* target_near
            IF /\ {"target_code", "by", "width"} \subseteq DOMAIN params
               /\ params["target_code"] \in num
            THEN LET t == YearSumAt(rows, end_m, params["target_code"])
                     w == IF params["by"] = "amt" THEN params["width"]
                          ELSE FMul(Num(Abs(t.num)), FMul(Frac(1, t.den), params["width"]))
                 IN  [low |-> FSub(t, w), high |-> FAdd(t, w)]
            ELSE NoBand

\* services.filter_products_by_band: inclusive on both bounds.
filter_products_by_band(rows, end_m, S, low, high) ==
    IF IsNull(low) \/ IsNull(high) THEN {}
    ELSE {p \in NumCodes(rows, end_m, S) :
            /\ FLeq(low, YearSumAt(rows, end_m, p))
            /\ FLeq(YearSumAt(rows, end_m, p), high)}

BandModes == {"amount", "two_products", "percentile", "rank", "target_near"}

choose_amount_slider_unit(max_amount) ==
    IF max_amount <= 0 THEN 1
    ELSE IF max_amount <= 300 THEN 1
    ELSE IF max_amount <= 300 * 1000 THEN 1000
    ELSE IF max_amount <= 300 * 10000 THEN 10000
    ELSE IF max_amount <= 300 * 1000000 THEN 1000000
    ELSE 100000000

CeilDiv(a, b) == -((-a) \div b)
Clamp(x, lo, hi) == Max2(lo, Min2(x, hi))

Raised == [raised |-> TRUE, params |-> EmptyDict]
Built(params) == [raised |-> FALSE, params |-> params]

\* A range slider raises when its default value lies outside [lo, hi]; what
\* it does for lo = hi is left to equal_raises.
RangeSliderRaises(lo, hi, value_low, value_high, equal_raises) ==
    \/ value_low < lo \/ value_low > hi
    \/ value_high < lo \/ value_high > hi
    \/ lo > hi
    \/ (lo = hi /\ equal_raises)

\* The band parameters the toolbar builds (src/app.py:7573-7752) from the
\* parameters of the previous run (initial) and this run's input.
BandParamsOf(band_mode, initial, rows, end_m, S, inp, max_amount, low0, high0) ==
    IF band_mode = "amount" THEN
        IF S # {}
        THEN LET unit_scale == choose_amount_slider_unit(max_amount)
                 high_init == Get(initial, "high_amount", high0)
                 low_init == Get(initial, "low_amount", low0)
                 slider_max == Max2(CeilDiv(Max2(max_amount, high_init), unit_scale), 1)
                 default_low == Clamp(RoundHalfEven(Frac(low_init, unit_scale)), 0, slider_max)
                 default_high == Max2(default_low,
                                      Min2(RoundHalfEven(Frac(high_init, unit_scale)), slider_max))
                 low_scaled == IF inp.pick = "default" THEN default_low ELSE 0
                 high_scaled == IF inp.pick = "default" THEN default_high
                                ELSE IF inp.pick = "first" THEN 0 ELSE slider_max
                 high == Min2(high_scaled * unit_scale, max_amount)
                 low == Min2(low_scaled * unit_scale, high)
             IN  Built([low_amount |-> low, high_amount |-> high])
        ELSE Built([low_amount |-> low0, high_amount |-> high0])
    ELSE IF band_mode = "two_products" THEN
        IF S # {}
        THEN LET opts == Opts(S)
                 prod_a == IF inp.pick = "last" THEN opts[Len(opts)] ELSE opts[1]
                 prod_b == IF inp.pick = "last" THEN opts[Len(opts)]
                           ELSE IF inp.pick = "default" /\ Len(opts) > 1 THEN opts[2]
                           ELSE opts[1]
             IN  Built([prod_a |-> prod_a, prod_b |-> prod_b])
        ELSE Built(initial)
    ELSE IF band_mode = "percentile" THEN
        LET p_low == Get(initial, "p_low", 0)
            p_high == Get(initial, "p_high", 100)
        IN  IF S # {}
            THEN IF RangeSliderRaises(0, 100, p_low, p_high, FALSE) THEN Raised
                 ELSE IF inp.pick = "first" THEN Built([p_low |-> 0, p_high |-> 50])
                 ELSE IF inp.pick = "last" THEN Built([p_low |-> 50, p_high |-> 100])
                 ELSE Built([p_low |-> p_low, p_high |-> p_high])
            ELSE Built([p_low |-> p_low, p_high |-> p_high])
    ELSE IF band_mode = "rank" THEN
        IF S # {}
        THEN LET ranked == NumCodes(rows, end_m, S)
                 max_rank == CHOOSE r \in {RankOf(rows, end_m, p) : p \in ranked} :
                                \A p \in ranked : RankOf(rows, end_m, p) <= r
                 r_low == Get(initial, "r_low", 1)
                 r_high == Get(initial, "r_high", max_rank)
             IN  IF RangeSliderRaises(1, max_rank, r_low, r_high, inp.equal_slider_raises)
                 THEN Raised
                 ELSE IF inp.pick = "first" THEN Built([r_low |-> 1, r_high |-> 1])
                 ELSE IF inp.pick = "last"
                      THEN Built([r_low |-> max_rank, r_high |-> max_rank])
                 ELSE Built([r_low |-> r_low, r_high |-> r_high])
        ELSE Built([r_low |-> Get(initial, "r_low", 1),
                    r_high |-> Get(initial, "r_high", 1)])
    ELSE \* target_near
        LET opts == Opts(S)
            tcode == IF opts = <<>> THEN ""
                     ELSE IF inp.pick = "last" THEN opts[Len(opts)] ELSE opts[1]
            by == IF inp.by # "" THEN inp.by ELSE Get(initial, "by", "amt")
            width_amt == IF inp.width # None THEN Num(Truncate(inp.width))
                         ELSE Num(Truncate(Get(initial, "width", Num(100000))))
            width_pct == IF inp.width # None THEN inp.width
                         ELSE Get(initial, "width", Frac(1, 10))
        IN  IF by = "amt"
            THEN Built([target_code |-> tcode, by |-> "amt", width |-> width_amt])
            ELSE Built([target_code |-> tcode, by |-> "pct", width |-> width_pct])

\* A run of the Compare view with end month end_m chosen in the sidebar and
\* this run's toolbar input inp.
CompareRun(end_m, inp) ==
    /\ page' = "compare"
    /\ LeaveDashboard
    /\ IF ~DataLoaded
       THEN \* require_data() stops the run
            /\ rendered' = [what |-> "stopped"]
            /\ UNCHANGED compare_params
       ELSE /\ end_m \in 1..LatestMonth(data_year.rows)
            /\ LET rows == data_year.rows
                   params == compare_params
                   S == SearchSnapshot(latest_yearsum_snapshot(rows, end_m), inp.search)
                   num == NumCodes(rows, end_m, S)
                   desc == SortDesc(rows, end_m, num)
                   band_params_initial == Get(params, "band_params", EmptyDict)
                   \* int(snapshot["year_sum"].max()) of an all-null column raises
                   max_raises == S # {} /\ num = {}
                   max_amount == IF S # {} THEN Truncate(desc[1]) ELSE 0
                   low0 == Get(band_params_initial, "low_amount",
                               IF S # {} THEN Truncate(desc[Len(desc)]) ELSE 0)
                   high0 == Get(band_params_initial, "high_amount", max_amount)
                   band_mode == IF inp.mode # "" THEN inp.mode
                                ELSE Get(params, "band_mode", "amount")
                   built == BandParamsOf(band_mode, band_params_initial, rows, end_m, S,
                                         inp, max_amount, low0, high0)
                   band == resolve_band(rows, end_m, S, band_mode, built.params)
                   band_codes == filter_products_by_band(rows, end_m, S, band.low, band.high)
                   n_win == inp.n_win
                   eff_n == IF n_win > 0 THEN n_win ELSE 12
                   shape_window == Max2(6, eff_n * 2)
               IN  IF max_raises \/ built.raised
                   THEN /\ rendered' = [what |-> "compare_raised",
                                        end_m |-> end_m,
                                        search |-> inp.search,
                                        snapshot |-> S]
                        /\ UNCHANGED compare_params
                   ELSE /\ compare_params' = [end_month |-> end_m,
                                              band_mode |-> band_mode,
                                              band_params |-> built.params,
                                              quick |-> inp.quick]
                        /\ rendered' =
                                [what |-> "compare",
                                 end_m |-> end_m,
                                 search |-> inp.search,
                                 snapshot |-> S,
                                 band_mode |-> band_mode,
                                 band_params |-> built.params,
                                 band |-> band,
                                 band_codes |-> band_codes,
                                 codes |-> IF inp.quick = "Top5" THEN num ELSE band_codes,
                                 n_win |-> n_win,
                                 snap |-> slopes_snapshot(rows, n_win),
                                 slope_points |->
                                    [p \in DOMAIN rows |-> slope_points(rows, p, n_win)],
                                 shape_window |-> shape_window,
                                 shape_points |->
                                    [p \in DOMAIN rows |-> shape_points(rows, p, shape_window)]]
    /\ UNCHANGED <<long_df, settings, dataVars, saved_views, compare_results, nav>>


\* ---- The session as a whole ----

\* What the user types into the window field of the Settings page.
WindowInputs == {SettingsWindowMin, 6, SettingsWindowMax}
UnitInputs == {"yen", "thousand_yen"}
TemplateInputs == {"restaurant", "retail"}
\* The end months picked in the sidebar.
AlertMonths == {2, MaxMonths, YoyLag + 1}

Init ==
    /\ long_df = None
    /\ settings = DefaultSettings
    /\ InitSessionKeys
    /\ page = "import"
    /\ nav = NoNav

Next ==
    \/ ImportRender
    \/ \E k \in TemplateInputs : ImportSelectTemplate(k)
    \/ \E df \in SessionUploads : ImportIngest(df)
    \/ \E pc \in PeriodOptions \cup {0} : \E uc \in UnitInputs \cup {""} :
            (pc = 0 \/ uc = "") /\ DashboardRun(pc, uc)
    \/ \E wi \in WindowInputs \cup {0} : \E ui \in UnitInputs \cup {""} :
            (wi = 0 \/ ui = "") /\ SettingsRun(wi, ui, None)
    \/ SettingsRecompute
    \/ SavedRender
    \/ \E n \in ViewNames : SavedSave(n)
    \/ \E n \in ViewNames : SavedApply(n)
    \/ \E end_m \in AlertMonths : AlertsRun(end_m)

Spec == Init /\ [][Next]_vars

\* C7: in every reachable state settings['window'] is an integer between 3
\* and 24 inclusive.
C7_WindowInRange ==
    settings.window >= 3 /\ settings.window <= 24

-----------------------------------------------------------------------------
(* services.aggregate_overview and compute_hhi.                             *)

RECURSIVE SumDefined(_, _, _)
\* The sum of the defined year_sum cells of the products in S at month M.
SumDefined(rows, S, M) ==
    IF S = {} THEN Num(0)
    ELSE LET p == CHOOSE x \in S : TRUE
             rest == SumDefined(rows, S \ {p}, M)
         IN  IF IsNum(rows[p][M].year_sum) THEN FAdd(rest, rows[p][M].year_sum) ELSE rest

\* Total year_sum at month M: nulls are left out; null when no cell is defined.
TotalYearSum(rows, M) ==
    IF M < 1 \/ \A p \in DOMAIN rows : IsNull(rows[p][M].year_sum)
    THEN NaN
    ELSE SumDefined(rows, DOMAIN rows, M)

\* A null result is handed back as null_value (None or NaN).
OrNull(x, null_value) == IF IsNull(x) THEN null_value ELSE x

aggregate_overview(rows, M, null_value) ==
    LET total == TotalYearSum(rows, M)
        prev == TotalYearSum(rows, M - 1)
        ago == TotalYearSum(rows, M - YoyLag)
    IN  [total_year_sum |-> OrNull(total, null_value),
         yoy |-> IF IsNum(total) /\ IsNum(ago) /\ ago.num # 0
                 THEN FSub(FDiv(total, ago), Num(1)) ELSE null_value,
         delta |-> IF IsNum(total) /\ IsNum(prev)
                   THEN FSub(total, prev) ELSE null_value]

RECURSIVE SumSquaredShares(_, _, _, _)
SumSquaredShares(rows, S, M, total) ==
    IF S = {} THEN Num(0)
    ELSE LET p == CHOOSE x \in S : TRUE
             rest == SumSquaredShares(rows, S \ {p}, M, total)
             share == FDiv(rows[p][M].year_sum, total)
         IN  IF IsNum(rows[p][M].year_sum) THEN FAdd(rest, FMul(share, share)) ELSE rest

\* The sum of the shares in place of the sum of their squares.
compute_hhi_Unsquared(rows, M, null_value) ==
    LET total == TotalYearSum(rows, M)
    IN  IF IsNull(total) \/ total.num = 0 THEN null_value
        ELSE FDiv(SumDefined(rows, DOMAIN rows, M), total)

compute_hhi(rows, M, null_value) ==
    LET total == TotalYearSum(rows, M)
    IN  IF IsNull(total) \/ total.num = 0 THEN null_value
        ELSE SumSquaredShares(rows, DOMAIN rows, M, total)

-----------------------------------------------------------------------------
(* Formatting and the KPI summaries (src/app.py:2712-2783, 4226-4267).      *)

UNIT_MAP == [yen |-> 1, thousand_yen |-> 1000, million_yen |-> 1000000]

\* The texts a summary shows.
Dash == [text |-> "dash"]
ZeroText == [text |-> "int", value |-> 0]
IntText(v) == [text |-> "int", value |-> v]
AmountText(v, unit) == [text |-> "amount", value |-> v, unit |-> unit]
PercentText(tenths) == [text |-> "percent", tenths |-> tenths]
Fixed3Text(thousandths) == [text |-> "fixed3", thousandths |-> thousandths]
NanPercentText == [text |-> "nan%"]
NanText == [text |-> "nan"]

\* int(round(val)) with separators; "0" when round() raises.
format_int(val) ==
    IF IsNum(val) THEN IntText(RoundHalfEven(val)) ELSE ZeroText

format_amount(val, unit) ==
    IF val = None \/ val = NaN THEN Dash
    ELSE AmountText(
            format_int(FDiv(val, Num(IF unit \in DOMAIN UNIT_MAP THEN UNIT_MAP[unit] ELSE 1))).value,
            unit)

\* f"{yoy_val * 100:.1f}%" if yoy_val is not None else "-"
YoyText(yoy_val) ==
    IF yoy_val = None THEN Dash
    ELSE IF yoy_val = NaN THEN NanPercentText
    ELSE PercentText(RoundHalfEven(FMul(yoy_val, Num(1000))))

\* f"{hhi_val:.3f}"
HhiText(hhi_val) ==
    IF hhi_val = NaN THEN NanText
    ELSE Fixed3Text(RoundHalfEven(FMul(hhi_val, Num(1000))))

\* render_sidebar_summary, which every script run calls.
render_sidebar_summary(null_kpi, null_hhi) ==
    /\ IF data_year = None
       THEN rendered' = [what |-> "sidebar_caption"]
       ELSE LET end_m == LatestMonth(data_year.rows)
                unit == settings.currency_unit
                kpi == aggregate_overview(data_year.rows, end_m, null_kpi)
                hhi_val == compute_hhi(data_year.rows, end_m, null_hhi)
            IN  rendered' =
                    [what |-> "sidebar_summary",
                     kpi |-> kpi,
                     hhi_val |-> hhi_val,
                     shown |->
                        [total_year_sum |-> format_amount(kpi.total_year_sum, unit),
                         yoy |-> YoyText(kpi.yoy),
                         delta |-> format_amount(kpi.delta, unit),
                         hhi |-> IF hhi_val # None THEN HhiText(hhi_val) ELSE Dash]]
    /\ UNCHANGED <<long_df, settings, dataVars, viewVars, page, widgets, nav>>

\* render_dataset_metric_cards(data_year, latest_month) on the import page.
render_dataset_metric_cards(null_kpi, null_hhi) ==
    /\ page = "import"
    /\ data_year # None
    /\ LET end_month == LatestMonth(data_year.rows)
           unit == settings.currency_unit
           kpi == aggregate_overview(data_year.rows, end_month, null_kpi)
           hhi_val == compute_hhi(data_year.rows, end_month, null_hhi)
           titles == {"total_year_sum", "yoy", "delta", "sku_count"}
                        \cup (IF hhi_val # None THEN {"hhi"} ELSE {})
       IN  rendered' =
                [what |-> "metric_cards",
                 kpi |-> kpi,
                 hhi_val |-> hhi_val,
                 shown |-> [t \in titles |->
                    IF t = "total_year_sum" THEN format_amount(kpi.total_year_sum, unit)
                    ELSE IF t = "yoy" THEN YoyText(kpi.yoy)
                    ELSE IF t = "delta" THEN format_amount(kpi.delta, unit)
                    ELSE IF t = "hhi" THEN HhiText(hhi_val)
                    ELSE IntText(Cardinality(DOMAIN data_year.rows))]]
    /\ UNCHANGED <<long_df, settings, dataVars, viewVars, page, widgets, nav>>

-----------------------------------------------------------------------------
(* SKU detail, single mode (src/app.py:8024-8092).                          *)

\* The run of the SKU detail page for product code at end month end_m, with
\* the AI summary toggle on or off; ai_explain is the payload that
\* _ai_explain receives when the toggle is on.
SkuDetailRun(code, end_m, ai_on) ==
    /\ DataLoaded
    /\ code \in DOMAIN data_year.rows
    /\ end_m \in 1..Len(data_year.rows[code])
    /\ page' = "detail"
    /\ LET rr == data_year.rows[code][end_m]
       IN  rendered' =
            [what |-> "sku_detail",
             row |-> rr,
             metrics |->
                [year_sum |-> IF IsNum(rr.year_sum) THEN IntText(Truncate(rr.year_sum)) ELSE Dash,
                 yoy |-> IF IsNum(rr.yoy)
                         THEN PercentText(RoundHalfEven(FMul(rr.yoy, Num(1000)))) ELSE Dash,
                 delta |-> IF IsNum(rr.delta) THEN IntText(Truncate(rr.delta)) ELSE Dash],
             ai_on |-> ai_on,
             ai_explain |->
                [year_sum |-> IF IsNum(rr.year_sum) THEN rr.year_sum ELSE Num(0),
                 yoy |-> IF IsNum(rr.yoy) THEN rr.yoy ELSE Num(0),
                 delta |-> IF IsNum(rr.delta) THEN rr.delta ELSE Num(0)]]
    /\ LeaveDashboard
    /\ UNCHANGED <<long_df, settings, dataVars, viewVars, nav>>

\* ---- The summaries on bounded tables ----

RenderSeries == ShortSeries \cup {HeadFillTail(h, f, t, YoyLag + 1) :
                    h \in CellValues, f \in CellValues, t \in CellValues}
NullValues == {None, NaN}
DetailMonths == {1, 2, YoyLag + 1}

InitRender ==
    /\ \E a \in RenderSeries :
            long_df = [p \in Products |-> IF p = "A" THEN a ELSE Reversed(a)]
    /\ \E u \in UnitOptions : settings = [DefaultSettings EXCEPT !.currency_unit = u]
    /\ InitSessionKeys
    /\ page = "import"
    /\ nav = NoNav

NextRender ==
    \/ process_long_dataframe
    \/ \E nk \in NullValues, nh \in NullValues : render_sidebar_summary(nk, nh)
    \/ \E nk \in NullValues, nh \in NullValues : render_dataset_metric_cards(nk, nh)
    \/ \E code \in Products, end_m \in DetailMonths, ai_on \in BOOLEAN :
            SkuDetailRun(code, end_m, ai_on)

SpecRender == InitRender /\ [][NextRender]_vars

\* ---- The concentration index on bounded tables ----

\* The second product of a table: the first one's series reversed, or as
\* many months of one amount.
Flat(v, n) == [m \in 1..n |-> v]
SecondSeries(a) == {Reversed(a), Flat(Num(1), Len(a)), Flat(Num(0), Len(a))}

InitHhi ==
    /\ \E a \in ShortSeries : \E b \in SecondSeries(a) :
            long_df = [p \in Products |-> IF p = "A" THEN a ELSE b]
    /\ settings = DefaultSettings
    /\ InitSessionKeys
    /\ page = "import"
    /\ nav = NoNav

NextHhi ==
    \/ process_long_dataframe
    \/ \E nk \in NullValues, nh \in NullValues : render_sidebar_summary(nk, nh)
    \/ \E nk \in NullValues, nh \in NullValues : render_dataset_metric_cards(nk, nh)

SpecHhi == InitHhi /\ [][NextHhi]_vars


\* ---- The Alerts page on bounded tables ----

\* What the user types into the threshold fields of the Settings page.
ThresholdInputs ==
    {[yoy_threshold |-> Num(0), delta_threshold |-> Num(-1),
      slope_threshold |-> Frac(-1, 10)],
     [yoy_threshold |-> Num(-1), delta_threshold |-> Num(0),
      slope_threshold |-> Num(0)],
     [yoy_threshold |-> Frac(-1, 2), delta_threshold |-> Num(-2),
      slope_threshold |-> Num(-1)]}

InitAlerts ==
    /\ \E a \in InputSeries :
            long_df = [p \in Products |-> IF p = "A" THEN a ELSE Reversed(a)]
    /\ settings = DefaultSettings
    /\ data_monthly = Table(NormalizedOf(long_df, settings))
    /\ data_year = Table(YearTableOf(NormalizedOf(long_df, settings), settings))
    /\ saved_views = EmptyDict
    /\ compare_params = EmptyDict
    /\ compare_results = None
    /\ page = "import"
    /\ nav = NoNav
    /\ widgets = NoWidgets
    /\ rendered = NothingRendered

NextAlerts ==
    \/ \E k \in TemplateInputs : ImportSelectTemplate(k)
    \/ \E th \in ThresholdInputs \cup {None} : SettingsRun(0, "", th)
    \/ \E end_m \in AlertMonths : AlertsRun(end_m)

SpecAlerts == InitAlerts /\ [][NextAlerts]_vars

\* ---- The Compare view on bounded tables ----

\* What the user types into the search box: nothing, a text matching
\* product A, a text matching no product.
SearchInputs == {<<>>, <<"a">>, <<"z", "z">>}
Picks == {"default", "first", "last"}

\* The slope window slider: 0..12, 6 to start with.
DefaultSlopeWindow == 6

CompareInputs ==
    {inp \in [search : SearchInputs,
              mode : BandModes \cup {""},
              pick : Picks,
              by : {"", "pct"},
              width : {None, Num(0)},
              quick : {"none", "Top5"},
              n_win : {DefaultSlopeWindow},
              equal_slider_raises : BOOLEAN] :
        /\ (inp.by # "" \/ inp.width # None) =>
                (inp.mode = "target_near" /\ inp.pick = "default")
        /\ inp.equal_slider_raises => inp.mode = "rank"
        /\ inp.quick = "Top5" => (inp.pick = "default" /\ inp.mode = "")}

CompareMonths == {1, MaxMonths}

\* The session's uploads and a table with no observed value at all.
CompareUploads ==
    SessionUploads \cup {[p \in Products |-> [m \in 1..MaxMonths |-> NaN]]}

InitCompare ==
    /\ long_df \in CompareUploads
    /\ settings = DefaultSettings
    /\ data_monthly = Table(NormalizedOf(long_df, settings))
    /\ data_year = Table(YearTableOf(NormalizedOf(long_df, settings), settings))
    /\ saved_views = EmptyDict
    /\ compare_params = EmptyDict
    /\ compare_results = None
    /\ page = "import"
    /\ nav = NoNav
    /\ widgets = NoWidgets
    /\ rendered = NothingRendered

NextCompare ==
    \E end_m \in CompareMonths, inp \in CompareInputs : CompareRun(end_m, inp)

SpecCompare == InitCompare /\ [][NextCompare]_vars

\* ---- The saved views together with the pages that change what they hold ----

\* The toolbar inputs of the Compare view used between a save and an apply.
ViewCompareInputs ==
    {inp \in CompareInputs :
        /\ inp.search = <<>>
        /\ inp.mode \in {"", "percentile"}
        /\ inp.pick \in {"default", "first"}
        /\ inp.quick = "none"}

ViewWindowInputs == {SettingsWindowMin}
ViewUnitInputs == {"thousand_yen"}
ViewTemplates == {"restaurant"}

InitViews ==
    /\ long_df \in SessionUploads
    /\ settings = DefaultSettings
    /\ data_monthly = Table(NormalizedOf(long_df, settings))
    /\ data_year = Table(YearTableOf(NormalizedOf(long_df, settings), settings))
    /\ saved_views = EmptyDict
    /\ compare_params = EmptyDict
    /\ compare_results = None
    /\ page = "import"
    /\ nav = NoNav
    /\ widgets = NoWidgets
    /\ rendered = NothingRendered

NextViews ==
    \/ ImportRender
    \/ \E k \in ViewTemplates : ImportSelectTemplate(k)
    \/ \E wi \in ViewWindowInputs \cup {0} : \E ui \in ViewUnitInputs \cup {""} :
            (wi = 0 \/ ui = "") /\ SettingsRun(wi, ui, None)
    \/ \E inp \in ViewCompareInputs : CompareRun(MaxMonths, inp)
    \/ SavedRender
    \/ \E n \in ViewNames : SavedSave(n)
    \/ \E n \in ViewNames : SavedApply(n)

SpecViews == InitViews /\ [][NextViews]_vars

\* ---- apply_industry_template on its own ----

\* The settings a template is applied to, and the keys it is applied with:
\* the three templates and two keys that name none.
TemplateWindows == {SettingsWindowMin, 12, 36}
TemplateLastNs == {SettingsLastNMin, 12}
TemplateYoys == {Frac(-1, 2)}
AppliedKeys == TemplateKeys \cup {"", "wholesale"}

InitTemplate ==
    /\ \E w \in TemplateWindows, n \in TemplateLastNs, pol \in Policies,
          u \in UnitOptions, t \in DOMAIN INDUSTRY_TEMPLATES :
        \E yoy \in TemplateYoys \cup {INDUSTRY_TEMPLATES[t].yoy_threshold} :
            settings = [window |-> w,
                        last_n |-> n,
                        missing_policy |-> pol,
                        yoy_threshold |-> yoy,
                        delta_threshold |-> INDUSTRY_TEMPLATES[t].delta_threshold,
                        slope_threshold |-> INDUSTRY_TEMPLATES[t].slope_threshold,
                        currency_unit |-> u,
                        industry_template |-> t,
                        template_kpi_targets |-> RECOMMENDED_METRICS[t]]
    /\ long_df = None
    /\ InitSessionKeys
    /\ page = "import"
    /\ nav = NoNav

\* A call of apply_industry_template; the record keeps the key and the
\* settings the call found.
ApplyTemplate(template_key) ==
    /\ settings' = apply_industry_template(settings, template_key)
    /\ rendered' = [what |-> "template", key |-> template_key, before |-> settings]
    /\ UNCHANGED <<long_df, dataVars, viewVars, page, widgets, nav>>

NextTemplate == \E k \in AppliedKeys : ApplyTemplate(k)

SpecTemplate == InitTemplate /\ [][NextTemplate]_vars

\* ---- The slope window of the Compare view on long tables ----

SlopeSeries ==
    {HeadFillTail(h, Num(1), t, n) :
        h \in CellValues, t \in CellValues, n \in {2 * YoyLag, 2 * YoyLag + 2}}

SlopeWindows == {0, 3, DefaultSlopeWindow, 12}

SlopeInputs ==
    [search : {<<>>},
     mode : {"", "percentile"},
     pick : {"default"},
     by : {""},
     width : {None},
     quick : {"none"},
     n_win : SlopeWindows,
     equal_slider_raises : {FALSE}]

InitSlope ==
    /\ \E a \in SlopeSeries :
            long_df = [p \in Products |-> IF p = "A" THEN a ELSE Reversed(a)]
    /\ settings = DefaultSettings
    /\ data_monthly = Table(NormalizedOf(long_df, settings))
    /\ data_year = Table(YearTableOf(NormalizedOf(long_df, settings), settings))
    /\ saved_views = EmptyDict
    /\ compare_params = EmptyDict
    /\ compare_results = None
    /\ page = "import"
    /\ nav = NoNav
    /\ widgets = NoWidgets
    /\ rendered = NothingRendered

NextSlope ==
    \E inp \in SlopeInputs : CompareRun(LatestMonth(data_year.rows), inp)

SpecSlope == InitSlope /\ [][NextSlope]_vars

-----------------------------------------------------------------------------
(* services.detect_linear_anomalies and the anomaly page                    *)
(* (src/app.py:8179-8260).                                                  *)

Inf == [kind |-> "inf"]
FAbs(x) == IF x.num < 0 THEN Frac(-x.num, x.den) ELSE x

RECURSIVE FSumRange(_, _, _)
\* seq[lo] + ... + seq[hi], summed by halves
FSumRange(seq, lo, hi) ==
    IF lo > hi THEN Num(0)
    ELSE IF lo = hi THEN seq[lo]
    ELSE LET mid == (lo + hi) \div 2
         IN  FAdd(FSumRange(seq, lo, mid), FSumRange(seq, mid + 1, hi))

FSum(seq, upto) == FSumRange(seq, 1, upto)

FMean(seq) == FDiv(FSum(seq, Len(seq)), Num(Len(seq)))

\* The least-squares line through pts at x = 0..Len(pts)-1.
FitLine(pts) ==
    LET b == OlsSlope(pts)
    IN  [slope |-> b,
         intercept |-> FSub(FMean(pts), FMul(b, Frac(Len(pts) - 1, 2)))]

Predicted(line, x) == FAdd(line.intercept, FMul(line.slope, Num(x)))

Residuals(pts, line) ==
    [i \in 1..Len(pts) |-> FSub(pts[i], Predicted(line, i - 1))]

RECURSIVE SortAsc(_)
SortAsc(seq) ==
    IF seq = <<>> THEN <<>>
    ELSE LET i == CHOOSE k \in 1..Len(seq) : \A j \in 1..Len(seq) : FLeq(seq[k], seq[j])
         IN  <<seq[i]>> \o SortAsc(SubSeq(seq, 1, i - 1) \o SubSeq(seq, i + 1, Len(seq)))

Median(seq) ==
    LET sorted == SortAsc(seq)
        n == Len(seq)
    IN  IF n % 2 = 1 THEN sorted[(n + 1) \div 2]
        ELSE FDiv(FAdd(sorted[n \div 2], sorted[n \div 2 + 1]), Num(2))

\* Median absolute deviation of the residuals.
MAD(res) ==
    LET med == Median(res)
    IN  Median([i \in 1..Len(res) |-> FAbs(FSub(res[i], med))])

\* stddev(res)^2, with ddof degrees of freedom taken off.
Variance(res, ddof) ==
    LET mean == FMean(res)
        sq == [i \in 1..Len(res) |-> FMul(FSub(res[i], mean), FSub(res[i], mean))]
    IN  FDiv(FSum(sq, Len(res)), Num(Len(res) - ddof))

\* A score is kept as its sign and its square (the z-score is a square root).
ZeroScore == [kind |-> "num", sign |-> 0, sq |-> Num(0)]
MadScale == Frac(6745, 10000)

RawScore(residual, spread, robust) ==
    [kind |-> "num",
     sign |-> IF residual.num > 0 THEN 1 ELSE IF residual.num < 0 THEN -1 ELSE 0,
     sq |-> IF robust
            THEN LET q == FDiv(FMul(MadScale, residual), spread) IN FMul(q, q)
            ELSE FDiv(FMul(residual, residual), spread)]

\* residual / spread with no care for a zero spread.
ScoreOf_Unguarded(residual, spread, robust) ==
    IF spread.num = 0
    THEN IF residual.num = 0 THEN NaN ELSE Inf
    ELSE RawScore(residual, spread, robust)

\* The score of a point: 0 when the window's residuals have no spread.
ScoreOf(residual, spread, robust) ==
    IF spread.num = 0 THEN ZeroScore ELSE RawScore(residual, spread, robust)

\* The point t of the series scored against its window: the window preceding
\* points, or the window points ending at t when the fit includes the point.
ScorePoint(series, t, window, robust, fit_includes_point, ddof) ==
    LET win == IF fit_includes_point
               THEN SubSeq(series, t - window + 1, t)
               ELSE SubSeq(series, t - window, t - 1)
        line == FitLine(win)
        res == Residuals(win, line)
        residual == IF fit_includes_point THEN res[window]
                    ELSE FSub(series[t], Predicted(line, window))
        spread == IF robust THEN MAD(res) ELSE Variance(res, ddof)
    IN  [t |-> t,
         residual |-> residual,
         spread |-> spread,
         score |-> ScoreOf(residual, spread, robust)]

\* Every point with at least window preceding points, scored.
ScoredPoints(series, window, robust, fit_includes_point, ddof) ==
    [i \in 1..Max2(0, Len(series) - window) |->
        ScorePoint(series, i + window, window, robust, fit_includes_point, ddof)]

\* |score| >= threshold
IsAnomalous(score, threshold) ==
    score.kind = "num" /\ FLeq(FMul(threshold, threshold), score.sq)

detect_linear_anomalies(series, window, threshold, robust, fit_includes_point, ddof) ==
    LET scored == ScoredPoints(series, window, robust, fit_includes_point, ddof)
    IN  {scored[i].t : i \in {j \in 1..Len(scored) : IsAnomalous(scored[j].score, threshold)}}

\* A run of the anomaly page with the window, score basis and threshold the
\* user set; how the library fits the window and takes the standard
\* deviation is not fixed by its contract.
AnomalyRun(window, robust, threshold, fit_includes_point, ddof) ==
    /\ page' = "anomaly"
    /\ LeaveDashboard
    /\ IF ~DataLoaded
       THEN rendered' = [what |-> "stopped"]
       ELSE rendered' =
                [what |-> "anomaly",
                 window |-> window,
                 robust |-> robust,
                 threshold |-> threshold,
                 scored |-> [p \in DOMAIN data_year.rows |->
                    ScoredPoints(YearSumSeries(data_year.rows, p), window, robust,
                                 fit_includes_point, ddof)],
                 anomalies |-> [p \in DOMAIN data_year.rows |->
                    detect_linear_anomalies(YearSumSeries(data_year.rows, p), window,
                                            threshold, robust, fit_includes_point, ddof)]]
    /\ UNCHANGED <<long_df, settings, dataVars, viewVars, nav>>

\* ---- The anomaly page on bounded tables ----

\* Amounts whose 12-month year_sum is 1 for twelve months and 10 in the
\* thirteenth.
SpikeSeries == HeadFillTail(Num(1), Num(0), Num(10), YoyLag + 1)

AnomalySeries ==
    {HeadFillTail(h, f, t, YoyLag + 1) :
        h \in CellValues, f \in {Num(0), Num(1)}, t \in CellValues} \cup {SpikeSeries}

\* The window slider, the score basis with its default threshold, and the
\* two choices the library's contract leaves open.
AnomalyWindows == {6, 12}
AnomalyInputs ==
    {inp \in [window : AnomalyWindows, robust : BOOLEAN,
              fit_includes_point : BOOLEAN, ddof : {0, 1}] :
        inp.ddof = 0 => (~inp.robust /\ inp.window = 6)}
DefaultThreshold(robust) == IF robust THEN Frac(35, 10) ELSE Frac(30, 10)

InitAnomaly ==
    /\ \E a \in AnomalySeries :
            long_df = [p \in Products |-> IF p = "A" THEN a ELSE Reversed(a)]
    /\ settings = DefaultSettings
    /\ data_monthly = Table(NormalizedOf(long_df, settings))
    /\ data_year = Table(YearTableOf(NormalizedOf(long_df, settings), settings))
    /\ saved_views = EmptyDict
    /\ compare_params = EmptyDict
    /\ compare_results = None
    /\ page = "import"
    /\ nav = NoNav
    /\ widgets = NoWidgets
    /\ rendered = NothingRendered

NextAnomaly ==
    \E inp \in AnomalyInputs :
        AnomalyRun(inp.window, inp.robust, DefaultThreshold(inp.robust),
                   inp.fit_includes_point, inp.ddof)

SpecAnomaly == InitAnomaly /\ [][NextAnomaly]_vars

-----------------------------------------------------------------------------
(* Navigation and the onboarding tour (src/app.py:5133-5370, 6374-6486,     *)
(* 6659-6663, 2258-2497).  One action is one run of the script: the event   *)
(* that started it, the navigation block, and the handler of the button     *)
(* that was pressed.                                                        *)

NAV_KEYS ==
    <<"dashboard", "ranking", "compare", "detail", "correlation", "category",
      "import", "anomaly", "alert", "settings", "saved">>

NavKeySet == {NAV_KEYS[i] : i \in DOMAIN NAV_KEYS}

\* SIDEBAR_PAGES[..]["category"]
PageCategory(page_key) ==
    CASE page_key \in {"import", "settings", "saved"} -> "input"
      [] page_key \in {"anomaly", "alert"} -> "simulation"
      [] OTHER -> "report"

\* PRIMARY_NAV_MENU[..]["pages"]
PagesOf(primary) ==
    CASE primary = "home" -> <<"dashboard">>
      [] primary = "ranking" -> <<"ranking">>
      [] primary = "analysis" -> <<"compare", "detail", "correlation", "category">>
      [] primary = "monitor" -> <<"anomaly", "alert">>
      [] primary = "data" -> <<"import", "settings", "saved">>

PageSet(primary) == {PagesOf(primary)[i] : i \in DOMAIN PagesOf(primary)}

\* The primary entries that show the "表示する機能" selectbox.
MultiPrimaries == {P \in PrimaryKeys : Len(PagesOf(P)) > 1}

PAGE_TO_PRIMARY_LOOKUP(page_key) ==
    CHOOSE P \in PrimaryKeys : page_key \in PageSet(P)

\* TOUR_STEPS[..]["nav_key"]
TOUR_STEPS ==
    <<"import", "dashboard", "ranking", "compare", "detail", "anomaly",
      "correlation", "category", "alert", "settings", "saved">>

\* The step a 0-based tour_step_index points at, clamped as the code clamps it.
TourIdx(s) == Clamp(s.tour_step_index, 0, Len(TOUR_STEPS) - 1)
TourNavKey(idx) == TOUR_STEPS[idx + 1]

\* The keyed widgets a run has instantiated so far: assigning the session key
\* of an instantiated widget raises StreamlitAPIException.
NoneInstantiated == [radio |-> FALSE, sub |-> Absent]
SidebarInstantiated(primary) ==
    [radio |-> TRUE, sub |-> IF primary \in MultiPrimaries THEN primary ELSE Absent]

queue_nav_category(s, category, rerun_on_lock) ==
    IF category = Absent THEN s
    ELSE IF s.nav_category = category THEN [s EXCEPT !.pending_category = Absent]
    ELSE [s EXCEPT !.pending_category = category,
                   !.nav_category = IF @ = Absent THEN category ELSE @,
                   !.rerun = @ \/ rerun_on_lock]

set_active_page(s, page_key, rerun_on_lock, inst) ==
    IF page_key \notin NavKeySet THEN s
    ELSE LET primary_key == PAGE_TO_PRIMARY_LOOKUP(page_key)
             sub_locked == inst.sub = primary_key
             rerun_required == sub_locked \/ inst.radio
             s1 == [s EXCEPT !.nav_page = page_key]
             s2 == IF sub_locked
                   THEN [s1 EXCEPT !.pending_sub[primary_key] = page_key]
                   ELSE [s1 EXCEPT !.nav_sub[primary_key] = page_key]
             s3 == IF inst.radio
                   THEN [s2 EXCEPT !.pending_primary = primary_key]
                   ELSE [s2 EXCEPT !.nav_primary = primary_key]
             s4 == queue_nav_category(s3, PageCategory(page_key),
                                      rerun_on_lock /\ ~rerun_required)
         IN [s4 EXCEPT !.rerun = @ \/ (rerun_required /\ rerun_on_lock)]

\* The pending pages with the tour's pending page dropped unused.
NavPending_IgnoresTour(s) ==
    LET default_key == IF s.tour_active THEN TourNavKey(TourIdx(s)) ELSE NAV_KEYS[1]
        a == IF s.nav_page = Absent
             THEN set_active_page(s, default_key, FALSE, NoneInstantiated)
             ELSE s
        b == set_active_page([a EXCEPT !.pending_page = Absent], a.pending_page,
                             FALSE, NoneInstantiated)
    IN [b EXCEPT !.tour_pending_nav = Absent]

\* src/app.py:6374-6392: the default page and the pending pages.
NavPending(s) ==
    LET default_key == IF s.tour_active THEN TourNavKey(TourIdx(s)) ELSE NAV_KEYS[1]
        a == IF s.nav_page = Absent
             THEN set_active_page(s, default_key, FALSE, NoneInstantiated)
             ELSE s
        b == set_active_page([a EXCEPT !.pending_page = Absent], a.pending_page,
                             FALSE, NoneInstantiated)
    IN set_active_page([b EXCEPT !.tour_pending_nav = Absent], b.tour_pending_nav,
                       FALSE, NoneInstantiated)

\* src/app.py:6394-6428: the pending category, primary and sub-menu values.
NavSync(s) ==
    LET current_page_key == s.nav_page
        d == [s EXCEPT !.pending_category = Absent,
                       !.nav_category =
                            IF s.pending_category # Absent THEN s.pending_category
                            ELSE IF @ = Absent THEN PageCategory(current_page_key)
                            ELSE @]
        e == [d EXCEPT !.pending_primary = Absent,
                       !.nav_primary =
                            IF d.pending_primary \in PrimaryKeys THEN d.pending_primary
                            ELSE IF @ \notin PrimaryKeys
                                 THEN PAGE_TO_PRIMARY_LOOKUP(current_page_key)
                            ELSE @]
    IN [e EXCEPT !.pending_sub = [P \in PrimaryKeys |-> Absent],
                 !.nav_sub = [P \in PrimaryKeys |->
                        IF current_page_key \in PageSet(P) THEN current_page_key
                        ELSE IF e.pending_sub[P] \in PageSet(P) THEN e.pending_sub[P]
                        ELSE IF e.nav_sub[P] = Absent THEN PagesOf(P)[1]
                        ELSE e.nav_sub[P]]]

\* The radio and the selectbox without the final set_active_page.
NavSelect_KeepsPage(s) ==
    IF PageCategory(s.nav_page) # s.nav_category
    THEN queue_nav_category(s, PageCategory(s.nav_page), TRUE)
    ELSE s

\* src/app.py:6443-6486: the radio, the selectbox, and the page they select.
NavSelect(s) ==
    LET selected_primary == s.nav_primary
        primary_pages == PagesOf(selected_primary)
        g == IF Len(primary_pages) > 1 /\ s.nav_sub[selected_primary] \notin PageSet(selected_primary)
             THEN [s EXCEPT !.nav_sub[selected_primary] = primary_pages[1]]
             ELSE s
        target_page_key == IF Len(primary_pages) > 1
                           THEN g.nav_sub[selected_primary]
                           ELSE primary_pages[1]
        h == IF g.nav_page # target_page_key
             THEN set_active_page(g, target_page_key, FALSE,
                                  SidebarInstantiated(selected_primary))
             ELSE g
    IN IF PageCategory(h.nav_page) # h.nav_category
       THEN queue_nav_category(h, PageCategory(h.nav_page), TRUE)
       ELSE h

NavBlock(s) == NavSelect(NavSync(NavPending(s)))

\* src/app.py:6659-6663
TourSync(s) ==
    IF s.tour_active /\ \E i \in DOMAIN TOUR_STEPS : TOUR_STEPS[i] = s.nav_page
    THEN [s EXCEPT !.tour_step_index =
                (CHOOSE i \in DOMAIN TOUR_STEPS : TOUR_STEPS[i] = s.nav_page) - 1]
    ELSE s

\* The buttons of the onboarding modal, the tour banner and the quick tabs
\* (src/app.py:2258-2293, 2304-2497, 6333-6366); each ends in st.rerun().
ButtonPressed(s, button, page_key) ==
    LET idx == TourIdx(s)
        t == [s EXCEPT !.tour_step_index = idx]
    IN CASE button = "onboarding_start" /\ ~t.onboarding_seen ->
                [t EXCEPT !.onboarding_seen = TRUE, !.tour_active = TRUE,
                          !.tour_step_index = 0,
                          !.tour_pending_nav = TourNavKey(0), !.rerun = TRUE]
         [] button = "onboarding_skip" /\ ~t.onboarding_seen ->
                [t EXCEPT !.onboarding_seen = TRUE, !.rerun = TRUE]
         [] button = "tour_prev" /\ t.tour_active /\ idx > 0 ->
                [t EXCEPT !.tour_step_index = idx - 1,
                          !.tour_pending_nav = TourNavKey(idx - 1), !.rerun = TRUE]
         [] button = "tour_next" /\ t.tour_active /\ idx < Len(TOUR_STEPS) - 1 ->
                [t EXCEPT !.tour_step_index = idx + 1,
                          !.tour_pending_nav = TourNavKey(idx + 1), !.rerun = TRUE]
         [] button = "tour_finish" /\ t.tour_active ->
                [t EXCEPT !.tour_active = FALSE, !.tour_pending_nav = Absent,
                          !.rerun = TRUE]
         [] button = "tour_resume" /\ ~t.tour_active ->
                [t EXCEPT !.tour_active = TRUE,
                          !.tour_pending_nav = TourNavKey(idx), !.rerun = TRUE]
         [] button = "tour_restart" /\ ~t.tour_active ->
                [t EXCEPT !.tour_active = TRUE, !.tour_step_index = 0,
                          !.tour_pending_nav = TourNavKey(0), !.rerun = TRUE]
         [] button = "quick_nav" /\ page_key # t.nav_page ->
                [set_active_page(t, page_key, TRUE,
                                 SidebarInstantiated(t.nav_primary))
                    EXCEPT !.rerun = TRUE]
         [] OTHER -> t

\* One run of the script up to the page body: a run the navigation block
\* ends with st.rerun() does not reach the buttons.
Script(s, button, page_key) ==
    LET n == NavBlock(s)
    IN IF n.rerun THEN n ELSE ButtonPressed(TourSync(n), button, page_key)

\* A run that completes drops the state of keyed widgets it did not render;
\* whether the value of a sub-menu key written through st.session_state
\* survives is left open: either all such keys are kept or all are dropped.
DropChoices == {{}, MultiPrimaries}
Finished(s, drop) ==
    IF s.rerun THEN s
    ELSE [s EXCEPT !.nav_sub = [P \in PrimaryKeys |->
                IF P \in drop /\ P # s.nav_primary THEN Absent ELSE @[P]]]

Settled == ~nav.rerun /\ nav.nav_page # Absent

\* What a run leaves for the next one to see.
RunRecord(event, choice, cause) ==
    [what |-> "run", event |-> event,
     choice |-> IF event \in {"radio", "sub"} THEN choice ELSE Absent,
     cause |-> cause,
     from_step |-> IF event \in {"tour_prev", "tour_next"} THEN nav.tour_step_index
                   ELSE IF cause \in {"tour_prev", "tour_next"} THEN rendered.from_step
                   ELSE 0,
     reached |-> ~nav'.rerun]

ScriptRun(s, event, choice, cause, button, drop) ==
    /\ nav' = Finished(Script(s, button, choice), drop)
    /\ page' = nav'.nav_page
    /\ rendered' = RunRecord(event, choice, cause)
    /\ widgets' = NoWidgets
    /\ UNCHANGED <<long_df, settings, dataVars, viewVars>>

\* The first run, or a run some other widget started.
PlainRun(drop) ==
    /\ ~nav.rerun
    /\ ScriptRun(nav, "plain", Absent, Absent, "none", drop)

\* The run st.rerun() asked for.
Rerun(drop) ==
    /\ nav.rerun
    /\ ScriptRun([nav EXCEPT !.rerun = FALSE], "rerun", Absent,
                 IF rendered.event = "rerun" THEN rendered.cause ELSE rendered.event,
                 "none", drop)

\* The user picks another entry of the "メインメニュー" radio.
RadioChoose(P, drop) ==
    /\ Settled
    /\ P # nav.nav_primary
    /\ ScriptRun([nav EXCEPT !.nav_primary = P], "radio", P, Absent, "none", drop)

\* The user picks another page in the "表示する機能" selectbox.
SubChoose(page_key, drop) ==
    /\ Settled
    /\ nav.nav_primary \in MultiPrimaries
    /\ page_key \in PageSet(nav.nav_primary)
    /\ page_key # nav.nav_sub[nav.nav_primary]
    /\ ScriptRun([nav EXCEPT !.nav_sub[nav.nav_primary] = page_key],
                 "sub", page_key, Absent, "none", drop)

\* A button of the quick navigation tabs (the active page's is disabled).
QuickNav(page_key) ==
    /\ Settled
    /\ page_key # nav.nav_page
    /\ ScriptRun(nav, "quick_nav", page_key, Absent, "quick_nav", {})

\* "設定を調整" of a status message on the dashboard: an on_click callback,
\* run before the script, where st.rerun() does nothing
\* (src/app.py:261-302, 3172).
StatusModify(drop) ==
    /\ Settled
    /\ nav.nav_page = "dashboard"
    /\ ScriptRun([set_active_page(nav, "settings", TRUE, NoneInstantiated)
                    EXCEPT !.rerun = FALSE],
                 "status_modify", "settings", Absent, "none", drop)

TourButtons ==
    {"tour_prev", "tour_next", "tour_finish", "tour_resume", "tour_restart"}
OnboardingButtons == {"onboarding_start", "onboarding_skip"}

ButtonShown(button) ==
    CASE button \in OnboardingButtons -> ~nav.onboarding_seen
      [] button = "tour_prev" -> nav.tour_active /\ TourIdx(nav) > 0
      [] button = "tour_next" -> nav.tour_active /\ TourIdx(nav) < Len(TOUR_STEPS) - 1
      [] button = "tour_finish" -> nav.tour_active
      [] OTHER -> ~nav.tour_active

\* A button of the tour banner.
TourButton(button) ==
    /\ Settled
    /\ ButtonShown(button)
    /\ ScriptRun(nav, button, Absent, Absent, button, {})

\* A button of the onboarding modal.
OnboardingButton(button) ==
    /\ Settled
    /\ ButtonShown(button)
    /\ ScriptRun(nav, button, Absent, Absent, button, {})

InitNav ==
    /\ long_df = None
    /\ settings = DefaultSettings
    /\ InitSessionKeys
    /\ page = "import"
    /\ nav = NoNav

\* The quick tabs pressed: one page of each multi-page entry and the home page.
NavQuickPages == {"dashboard", "detail", "alert", "settings"}

NextNav ==
    \/ \E drop \in DropChoices : PlainRun(drop)
    \/ \E drop \in DropChoices : Rerun(drop)
    \/ \E P \in PrimaryKeys, drop \in DropChoices : RadioChoose(P, drop)
    \/ \E pg \in NavKeySet, drop \in DropChoices : SubChoose(pg, drop)
    \/ \E pg \in NavQuickPages : QuickNav(pg)
    \/ \E drop \in DropChoices : StatusModify(drop)
    \/ \E b \in TourButtons : TourButton(b)
    \/ \E b \in OnboardingButtons : OnboardingButton(b)

SpecNav == InitNav /\ [][NextNav]_vars

-----------------------------------------------------------------------------
(* The session with its navigation: the runs that a widget of the page body *)
(* starts go through the navigation block first.                            *)

\* The stages of an ingestion (src/app.py:2696-2709, 2679-2693).
PipelineStages == {"parse", "fill", "rolling", "slopes"}

\* The tables after process_long_dataframe returned.
TablesAfterIngest(df) ==
    <<Table(NormalizedOf(df, settings)),
      Table(YearTableOf(NormalizedOf(df, settings), settings))>>

\* The tables had data_monthly been assigned as soon as it was computed.
TablesAfterFailure_EarlyAssign(stage, df) ==
    IF stage \in {"rolling", "slopes"}
    THEN <<Table(NormalizedOf(df, settings)), data_year>>
    ELSE <<data_monthly, data_year>>

\* The tables after a stage raised: both assignments follow the last stage
\* (src/app.py:2691-2692), and the callers catch the exception
\* (src/app.py:5792-5807, 5817-5829, 7125-7147).
TablesAfterFailure(stage, df) == <<data_monthly, data_year>>

\* The tables had the recompute stored its result under both keys.
TablesAfterRecompute_BothKeys ==
    IF data_monthly = None THEN <<data_monthly, data_year>>
    ELSE LET year_df == Table(compute_slopes(
                            compute_year_rolling(data_monthly.rows, settings.window,
                                                 settings.missing_policy),
                            settings.last_n))
         IN <<year_df, year_df>>

\* The tables after the recompute button (src/app.py:8858-8868).
TablesAfterRecompute ==
    IF data_monthly = None THEN <<data_monthly, data_year>>
    ELSE <<data_monthly,
           Table(compute_slopes(
                compute_year_rolling(data_monthly.rows, settings.window,
                                     settings.missing_policy),
                settings.last_n))>>

\* A run a widget of the page body started, up to that body.
BodyRun(event) ==
    /\ Settled
    /\ nav' = Finished(Script(nav, "none", Absent), {})
    /\ ~nav'.rerun
    /\ page' = nav'.nav_page
    /\ widgets' = NoWidgets
    /\ rendered' = RunRecord(event, Absent, Absent)

\* "Convert & ingest" on the import page.
UploadIngest(df) ==
    /\ nav.nav_page = "import"
    /\ BodyRun("ingest")
    /\ long_df' = df
    /\ data_monthly' = TablesAfterIngest(df)[1]
    /\ data_year' = TablesAfterIngest(df)[2]
    /\ UNCHANGED <<settings, viewVars>>

\* A sample or the demo data set, offered on every page while no data is
\* loaded; the run ends in st.rerun() (src/app.py:5751-5829, 6826-6846).
SampleIngest(df) ==
    /\ Settled
    /\ ~DataLoaded
    /\ ~NavBlock(nav).rerun
    /\ nav' = [TourSync(NavBlock(nav)) EXCEPT !.rerun = TRUE]
    /\ page' = nav'.nav_page
    /\ widgets' = NoWidgets
    /\ rendered' = RunRecord("ingest", Absent, Absent)
    /\ long_df' = df
    /\ data_monthly' = TablesAfterIngest(df)[1]
    /\ data_year' = TablesAfterIngest(df)[2]
    /\ UNCHANGED <<settings, viewVars>>

\* An ingestion in which a stage raises.
IngestFails(stage, df) ==
    /\ nav.nav_page = "import" \/ ~DataLoaded
    /\ BodyRun("ingest_error")
    /\ data_monthly' = TablesAfterFailure(stage, df)[1]
    /\ data_year' = TablesAfterFailure(stage, df)[2]
    /\ UNCHANGED <<long_df, settings, viewVars>>

\* The template selectbox of the import page changed to another template.
TemplateRun(selected_template) ==
    /\ nav.nav_page = "import"
    /\ selected_template # get_active_template_key(settings)
    /\ BodyRun("template")
    /\ settings' = apply_industry_template(settings, selected_template)
    /\ UNCHANGED <<long_df, dataVars, viewVars>>

\* The recompute button of the settings page.
RecomputeRun ==
    /\ nav.nav_page = "settings"
    /\ ~SettingsWidgetsRaise(settings)
    /\ BodyRun("recompute")
    /\ data_monthly' = TablesAfterRecompute[1]
    /\ data_year' = TablesAfterRecompute[2]
    /\ UNCHANGED <<long_df, settings, viewVars>>

\* The save button of the saved views page.
SavedSaveRun(name) ==
    /\ nav.nav_page = "saved"
    /\ BodyRun("save_view")
    /\ saved_views' = [k \in DOMAIN saved_views \cup {name} |->
            IF k = name THEN SavedView(settings, compare_params) ELSE saved_views[k]]
    /\ UNCHANGED <<long_df, settings, dataVars, compare_params, compare_results>>

\* The apply button of a saved view.
SavedApplyRun(k) ==
    /\ nav.nav_page = "saved"
    /\ k \in DOMAIN saved_views
    /\ BodyRun("apply_view")
    /\ settings' = AppliedSettings(settings, saved_views[k])
    /\ compare_params' = saved_views[k].compare
    /\ compare_results' = None
    /\ UNCHANGED <<long_df, dataVars, saved_views>>

\* The menu entries, sub-menu pages, quick tabs, tour buttons, uploads and
\* templates used together with the data actions.
FramePrimaries == {"data"}
FramePages == {"import", "settings", "saved"}
FrameQuickPages == {"import"}
FrameTourButtons == {"tour_next", "tour_finish"}
FrameUploads ==
    {[p \in Products |-> IF p = "A" THEN a ELSE Reversed(a)] :
        a \in {<<Num(1), NaN, Num(1), Num(2)>>}}
FrameTemplates == {"restaurant"}

NextFrame ==
    \/ PlainRun({})
    \/ Rerun({})
    \/ \E P \in FramePrimaries : RadioChoose(P, {})
    \/ \E pg \in FramePages : SubChoose(pg, {})
    \/ \E pg \in FrameQuickPages : QuickNav(pg)
    \/ \E b \in FrameTourButtons : TourButton(b)
    \/ \E df \in FrameUploads : UploadIngest(df)
    \/ \E df \in FrameUploads : SampleIngest(df)
    \/ \E stage \in PipelineStages, df \in FrameUploads : IngestFails(stage, df)
    \/ \E k \in FrameTemplates : TemplateRun(k)
    \/ RecomputeRun
    \/ \E n \in ViewNames : SavedSaveRun(n)
    \/ \E n \in ViewNames : SavedApplyRun(n)

SpecFrame == InitNav /\ [][NextFrame]_vars

-----------------------------------------------------------------------------
(* Properties of the rolling pipeline (SpecRolling).                        *)

Loaded == IsTable(data_monthly) /\ IsTable(data_year)
Window == IntOr12(settings.window)
Months(p) == 1..Len(long_df[p])
Row(p, M) == data_year.rows[p][M]

\* The months of the window ending at M that the table holds.
WindowMonths(p, M) == {m \in Months(p) : M - Window + 1 <= m /\ m <= M}

\* The sum of the uploaded cells over a set of months, an absent cell counting 0.
RECURSIVE CellSum(_, _)
CellSum(raw, S) ==
    IF S = {} THEN 0
    ELSE LET m == CHOOSE x \in S : TRUE
         IN  (IF IsNull(raw[m]) THEN 0 ELSE raw[m].num) + CellSum(raw, S \ {m})

\* The first month with an uploaded cell (past the end when there is none).
FirstObservedRaw(p) ==
    IF \E m \in Months(p) : IsNum(long_df[p][m])
    THEN CHOOSE m \in Months(p) :
            IsNum(long_df[p][m]) /\ \A k \in 1..(m - 1) : IsNull(long_df[p][k])
    ELSE Len(long_df[p]) + 1

NoGap(p) == \A m \in Months(p) : IsNum(long_df[p][m])

\* C1: every defined year_sum(M) is the sum of amount over the window months
\* M - window + 1 .. M; under mark_missing year_sum(M) is null whenever a month
\* of that window is null, and defined when the whole window is present.
C1_YearSumIsWindowSum ==
    Loaded =>
        \A p \in Products : \A M \in Months(p) :
            /\ IsNum(Row(p, M).year_sum) =>
                    Row(p, M).year_sum = Num(CellSum(long_df[p], WindowMonths(p, M)))
            /\ settings.missing_policy = "mark_missing" =>
                    IF \E m \in WindowMonths(p, M) : IsNull(long_df[p][m])
                    THEN Row(p, M).year_sum = NaN
                    ELSE M >= Window => IsNum(Row(p, M).year_sum)

C1_Witness ==
    /\ Loaded
    /\ settings.missing_policy = "mark_missing"
    /\ Window = 3
    /\ \E M \in Months("A") :
            /\ M >= 3
            /\ IsNull(long_df["A"][M - 2])
            /\ Row("A", M).year_sum = NaN
    /\ \E M \in Months("A") : Row("A", M).year_sum = Num(3)

\* C2: under zero_fill year_sum(M) is defined for every month at or after the
\* product's first observed month, missing months contributing 0, and null
\* for every month before it.
C2_ZeroFillDefinedFromFirstObserved ==
    (Loaded /\ settings.missing_policy = "zero_fill") =>
        \A p \in Products : \A M \in Months(p) :
            IF M >= FirstObservedRaw(p)
            THEN Row(p, M).year_sum = Num(CellSum(long_df[p], WindowMonths(p, M)))
            ELSE Row(p, M).year_sum = NaN

C2_Witness ==
    /\ Loaded
    /\ settings.missing_policy = "zero_fill"
    /\ Window = 2
    /\ FirstObservedRaw("A") = 2
    /\ Len(long_df["A"]) = 3
    /\ IsNull(long_df["A"][3])
    /\ Row("A", 1).year_sum = NaN
    /\ Row("A", 3).year_sum = Num(1)

\* A product with 24 consecutive non-missing months, rolled with window 12.
TwoYearsNoGap(p) ==
    /\ Loaded
    /\ Window = 12
    /\ Len(long_df[p]) = 24
    /\ NoGap(p)

ExactTrailingSum(p, M) ==
    Row(p, M).year_sum = Num(CellSum(long_df[p], (M - 11)..M))

YearSumYearAgo(p, M) == IF M > 12 THEN Row(p, M - 12).year_sum ELSE NaN

\* C4: yoy(M) = year_sum(M) / year_sum(M-12) - 1 when year_sum(M-12) is
\* defined and non-zero (null when year_sum(M) itself is null, as the quotient
\* of a null is null), and yoy(M) is null in every other case; every yoy cell
\* is null or a well-formed number, so no division by zero happens.
C4_YoyDefinedOrNull ==
    Loaded =>
        \A p \in Products : \A M \in Months(p) :
            LET ys == Row(p, M).year_sum
                den == YearSumYearAgo(p, M)
                yoy == Row(p, M).yoy
            IN  /\ (IsNum(den) /\ den.num # 0 /\ IsNum(ys)) =>
                        /\ IsNum(yoy)
                        /\ yoy.den > 0
                        /\ (yoy.num + yoy.den) * den.num * ys.den
                                = ys.num * den.den * yoy.den
                /\ (IsNull(den) \/ den.num = 0 \/ IsNull(ys)) => yoy = NaN

C4_Witness ==
    /\ Loaded
    /\ \E p \in Products : \E M \in Months(p) :
            /\ YearSumYearAgo(p, M) = Num(0)
            /\ IsNum(Row(p, M).year_sum)
            /\ Row(p, M).year_sum.num # 0
            /\ Row(p, M).yoy = NaN
    /\ \E p \in Products : \E M \in Months(p) :
            /\ IsNum(Row(p, M).yoy)
            /\ Row(p, M).yoy.num # 0

\* The end-to-end scenario: 14 months with no missing data, window 12.
EndToEndCase(p) ==
    /\ Loaded
    /\ Window = 12
    /\ Len(long_df[p]) = 14
    /\ NoGap(p)
    /\ Row(p, 13).year_sum = Num(1200000)
    /\ Row(p, 14).year_sum = Num(1260000)
    /\ Row(p, 2).year_sum = Num(1100000)

\* C5: in the end-to-end scenario delta(14) = 60,000 and
\* yoy(14) = 1,260,000 / 1,100,000 - 1, which is 0.1455 to four decimals.
C5_EndToEndScenario ==
    \A p \in Products :
        EndToEndCase(p) =>
            /\ Row(p, 14).delta = Num(60000)
            /\ Row(p, 14).yoy = Frac(1260000 - 1100000, 1100000)
            /\ 14545 * Row(p, 14).yoy.den <= 100000 * Row(p, 14).yoy.num
            /\ 100000 * Row(p, 14).yoy.num < 14555 * Row(p, 14).yoy.den

C5_Witness == EndToEndCase("A") /\ IsNum(Row("A", 14).yoy)

-----------------------------------------------------------------------------
(* Properties of the summaries (SpecRender).                                *)

KpiKeys == {"total_year_sum", "yoy", "delta"}
CellKeys == {"year_sum", "yoy", "delta"}

\* C6: a null year_sum, yoy or delta cell that is passed on to a summary or
\* an explanation is never replaced by the number 0: the AI explanation of
\* the SKU detail page receives no 0 for a cell that is null.
C6_NullNeverZero ==
    (rendered.what = "sku_detail" /\ rendered.ai_on) =>
        \A k \in CellKeys :
            IsNull(rendered.row[k]) => rendered.ai_explain[k] # Num(0)

\* C8: whenever an overview KPI (total year_sum, YoY, delta or HHI) is null,
\* None or NaN, the sidebar summary and the KPI cards show the dash for it.
C8_NullKpiShowsDash ==
    rendered.what \in {"sidebar_summary", "metric_cards"} =>
        /\ \A k \in KpiKeys :
                IsNull(rendered.kpi[k]) =>
                    k \in DOMAIN rendered.shown /\ rendered.shown[k] = Dash
        /\ IsNull(rendered.hhi_val) =>
                "hhi" \in DOMAIN rendered.shown /\ rendered.shown["hhi"] = Dash

-----------------------------------------------------------------------------
(* Properties of the Alerts page (SpecAlerts).                              *)

AlertRow(p) == data_year.rows[p][rendered.end_m]
AlertShown == page = "alert" /\ rendered.what = "alerts"

\* The metric is non-null and at or below its threshold.
Breached(metric, threshold) ==
    metric.kind = "num" /\ FLeq(metric, threshold)

\* C9: at the month the Alerts page evaluates, a product is in the alert list
\* if and only if at least one of its non-null metrics is at or below its
\* threshold; a null metric neither triggers an alert nor hides the breach of
\* another metric.
C9_AlertIffBreach ==
    AlertShown =>
        \A p \in DOMAIN data_year.rows :
            p \in rendered.codes <=>
                \/ Breached(AlertRow(p).yoy, settings.yoy_threshold)
                \/ Breached(AlertRow(p).delta, settings.delta_threshold)
                \/ Breached(AlertRow(p).slope_beta, settings.slope_threshold)

\* One product is listed for its delta although its yoy is null, and the
\* other one, with a null yoy as well, is not listed.
C9_Witness ==
    /\ AlertShown
    /\ \E p \in rendered.codes :
            /\ IsNull(AlertRow(p).yoy)
            /\ Breached(AlertRow(p).delta, settings.delta_threshold)
    /\ \E q \in DOMAIN data_year.rows \ rendered.codes :
            IsNull(AlertRow(q).yoy)

-----------------------------------------------------------------------------
(* Properties of the Compare view (SpecCompare).                            *)

CompareShown == rendered.what = "compare"
CompareRan == rendered.what \in {"compare", "compare_raised"}

\* The search text is not contained in any product's display name.
NoMatch(search) ==
    search # <<>> /\ \A p \in Products : ~Contains(DisplayName[p], search)

\* The band parameters name a product that the snapshot does not hold.
NamedMissing ==
    \/ /\ rendered.band_mode = "two_products"
       /\ {"prod_a", "prod_b"} \subseteq DOMAIN rendered.band_params
       /\ \/ rendered.band_params["prod_a"] \notin rendered.snapshot
          \/ rendered.band_params["prod_b"] \notin rendered.snapshot
    \/ /\ rendered.band_mode = "target_near"
       /\ rendered.band_params["target_code"] \notin rendered.snapshot

-----------------------------------------------------------------------------
(* Properties of the concentration index (SpecHhi).                         *)

HhiShown == rendered.what \in {"sidebar_summary", "metric_cards"} /\ IsNum(rendered.hhi_val)
HhiMonth == LatestMonth(data_year.rows)

\* The products with a year_sum at the month, and those with a non-zero one.
ActiveProducts ==
    {p \in DOMAIN data_year.rows : IsNum(data_year.rows[p][HhiMonth].year_sum)}
NonZeroProducts ==
    {p \in ActiveProducts : data_year.rows[p][HhiMonth].year_sum.num # 0}
NoNegativeYearSum ==
    \A p \in ActiveProducts : data_year.rows[p][HhiMonth].year_sum.num >= 0

HhiBounds ==
    /\ FLeq(Frac(1, Cardinality(ActiveProducts)), rendered.hhi_val)
    /\ FLeq(rendered.hhi_val, Num(1))
    /\ rendered.hhi_val = Num(1) <=> Cardinality(NonZeroProducts) = 1

-----------------------------------------------------------------------------
(* Properties of the anomaly scores (SpecAnomaly).                          *)

AnomalyShown == rendered.what = "anomaly"
ScoredOf(p) == rendered.scored[p]

\* C12: when the residuals over the window have zero variance (stddev = 0 in
\* non-robust mode, MAD = 0 in robust mode) the score of the point is exactly
\* 0, never infinite and never NaN, whatever the residual of the point.
C12_ZeroVarianceScoreZero ==
    AnomalyShown =>
        \A p \in DOMAIN rendered.scored : \A i \in 1..Len(ScoredOf(p)) :
            ScoredOf(p)[i].spread.num = 0 => ScoredOf(p)[i].score = ZeroScore

\* A point off a perfectly flat window: zero spread, non-zero residual.
C12_Witness ==
    /\ AnomalyShown
    /\ \E p \in DOMAIN rendered.scored : \E i \in 1..Len(ScoredOf(p)) :
            /\ ScoredOf(p)[i].spread.num = 0
            /\ ScoredOf(p)[i].residual.num # 0
            /\ ScoredOf(p)[i].score = ZeroScore

\* Product A is the series of 12 identical values followed by one 10 times
\* larger, scored with window 6; the spike is the last scored point.
SpikeCase ==
    /\ AnomalyShown
    /\ rendered.window = 6
    /\ long_df["A"] = SpikeSeries
    /\ YearSumSeries(data_year.rows, "A") = [m \in 1..(YoyLag + 1) |->
            IF m <= YoyLag THEN Num(1) ELSE Num(10)]
SpikeScore == ScoredOf("A")[Len(ScoredOf("A"))].score
ExceedsThree(score) == score.kind = "num" /\ score.sign = 1 /\ FLt(Num(9), score.sq)

-----------------------------------------------------------------------------
(* Properties of the Compare view's slope window (SpecSlope).               *)

AutoSlopeWindow == CompareShown /\ rendered.n_win = 0

\* C14: with the Compare view's slope window at 0 ("auto") both the slope
\* filter and the shape classification are computed over each product's full
\* series.
C14_AutoWindowFullSeries ==
    AutoSlopeWindow =>
        \A p \in DOMAIN data_year.rows :
            /\ rendered.slope_points[p] = YearSumSeries(data_year.rows, p)
            /\ rendered.shape_points[p] = YearSumSeries(data_year.rows, p)

-----------------------------------------------------------------------------
(* Properties of the navigation and the tour (SpecNav).                     *)

RanScript == rendered.what = "run"
SubChosen == RanScript /\ rendered.event = "sub"
RadioChosen == RanScript /\ rendered.event = "radio"
AfterTourButton(button) ==
    RanScript /\ rendered.event = "rerun" /\ rendered.cause = button

\* C16: choosing a different page in the sub-menu selectbox of the selected
\* primary entry makes that page active: at the end of the run nav_page is the
\* chosen page.
C16_SubMenuChoiceActive == SubChosen => nav.nav_page = rendered.choice

\* C17: a primary entry P chosen in the sidebar radio is not overridden by a
\* pending value of an earlier run: at the end of the run nav_primary = P and
\* nav_page is one of P's pages.
C17_RadioChoiceKept ==
    RadioChosen =>
        /\ nav.nav_primary = rendered.choice
        /\ nav.nav_page \in PageSet(rendered.choice)

\* C18: with the tour at step i, Next (i < last) makes step i+1 current in the
\* following run (tour_step_index = i+1 and nav_page = TOUR_STEPS[i+1].nav_key),
\* and Prev (i > 0) does the same for step i-1.
C18_TourStepNavigates ==
    /\ AfterTourButton("tour_next") =>
            /\ nav.tour_step_index = rendered.from_step + 1
            /\ nav.nav_page = TourNavKey(rendered.from_step + 1)
    /\ AfterTourButton("tour_prev") =>
            /\ nav.tour_step_index = rendered.from_step - 1
            /\ nav.nav_page = TourNavKey(rendered.from_step - 1)

\* The run after Next at step 3 (compare), here with a page of another menu
\* entry remembered from before.
C18_Witness ==
    /\ AfterTourButton("tour_next")
    /\ rendered.from_step = 3
    /\ nav.tour_step_index = 4
    /\ nav.nav_page = "detail"
    /\ nav.nav_sub["data"] = "settings"

\* C19: whenever a run reaches page rendering, nav_page is one of the eleven
\* NAV_KEYS and belongs to the pages of the primary entry the radio shows.
C19_PageBelongsToPrimary ==
    (RanScript /\ rendered.reached) =>
        /\ nav.nav_page \in NavKeySet
        /\ nav.nav_primary \in PrimaryKeys
        /\ nav.nav_page \in PageSet(nav.nav_primary)

\* A run that reached the page after the radio moved to another entry and
\* set_active_page could not assign the radio's key.
C19_Witness ==
    /\ RadioChosen
    /\ rendered.reached
    /\ nav.pending_primary = "ranking"
    /\ nav.nav_page = "ranking"

-----------------------------------------------------------------------------
(* Properties of the data tables over the session (SpecFrame).              *)

BothNone == data_monthly = None /\ data_year = None
BothSet == IsTable(data_monthly) /\ IsTable(data_year)

\* C15: once an ingestion created it, data_monthly stays as it is unless
\* another ingestion succeeds: the recompute, applying a template or a saved
\* view, navigation, tour actions and page rendering never change it.
C15_MonthlyFrame ==
    [][data_monthly' # data_monthly =>
            rendered'.what = "run" /\ rendered'.event = "ingest"]_vars

\* A recompute with data loaded, after a template and a saved view were
\* applied and the tour was closed.
C15_Witness ==
    /\ rendered.what = "run" /\ rendered.event = "recompute"
    /\ IsTable(data_monthly)
    /\ settings.industry_template = "restaurant"
    /\ "v1" \in DOMAIN saved_views
    /\ ~nav.tour_active

\* C20: data_monthly and data_year are both None or both set in every
\* reachable state, also after an ingestion in which a stage raised.
C20_BothOrNeither == BothNone \/ BothSet

\* A failed ingestion on top of loaded tables.
C20_Witness ==
    /\ rendered.what = "run" /\ rendered.event = "ingest_error"
    /\ BothSet

-----------------------------------------------------------------------------
(* Properties of the settings, the templates and the saved views.           *)

\* C21: pressing the recompute button with data loaded replaces data_year by
\* compute_year_rolling followed by compute_slopes on data_monthly under the
\* current window, missing_policy and last_n, and leaves data_monthly and the
\* settings unchanged; pressing it with no data loaded changes no session
\* state.
C21_RecomputeFrame ==
    [][SettingsRecompute =>
        IF data_monthly # None
        THEN /\ data_year' = Table(compute_slopes(
                    compute_year_rolling(data_monthly.rows, settings.window,
                                         settings.missing_policy),
                    settings.last_n))
             /\ data_monthly' = data_monthly
             /\ settings' = settings
        ELSE UNCHANGED <<long_df, settings, data_monthly, data_year,
                         saved_views, compare_params, compare_results, nav>>]_vars

\* The button was pressed with data loaded and the shortest window, and the
\* year table is no longer the one of the ingestion.
C21_Witness ==
    /\ rendered = [what |-> "recompute", loaded |-> TRUE]
    /\ data_monthly # None
    /\ settings.window = SettingsWindowMin
    /\ data_year = Table(compute_slopes(
            compute_year_rolling(data_monthly.rows, SettingsWindowMin,
                                 settings.missing_policy),
            settings.last_n))
    /\ data_year # Table(YearTableOf(data_monthly.rows, DefaultSettings))

\* C22: a run of the Dashboard in which the user does not change the period
\* selector leaves settings['window'] unchanged, whatever value the window
\* had before the page was opened.
C22_DashboardKeepsWindow ==
    [][(\E unit_choice \in UnitOptions \cup {""} : DashboardRun(0, unit_choice))
            => settings'.window = settings.window]_vars

\* C23: applying a saved view restores every settings key and the compare
\* parameters to the values they had when the view was saved and resets
\* compare_results to None, whatever the settings and the compare parameters
\* were changed to in between; the stored view changes by the save button
\* alone, which stores the values of that moment.
C23_ApplyRestoresSavedView ==
    [][/\ \A n \in ViewNames :
            SavedApply(n) =>
                /\ settings' = saved_views[n].settings
                /\ compare_params' = saved_views[n].compare
                /\ compare_results' = None
                /\ saved_views' = saved_views
       /\ \A n \in ViewNames :
            SavedSave(n) =>
                /\ saved_views'[n].settings = settings
                /\ saved_views'[n].compare = compare_params
       /\ saved_views' # saved_views => \E n \in ViewNames : SavedSave(n)]_vars

\* A view was applied after both the settings and the compare parameters had
\* moved away from it, and the session holds the saved values again.
C23_Witness ==
    /\ page = "saved"
    /\ rendered = [what |-> "view_applied", name |-> "v1",
                   changed |-> [settings |-> TRUE, compare |-> TRUE]]
    /\ settings = saved_views["v1"].settings
    /\ settings.window = SettingsWindowMin
    /\ compare_params = saved_views["v1"].compare
    /\ compare_params # EmptyDict
    /\ compare_results = None

\* C24: apply_industry_template with a known key sets yoy_threshold,
\* delta_threshold and slope_threshold to the template's values,
\* industry_template to the key and template_kpi_targets to the template's
\* recommended metrics, and leaves window, last_n, missing_policy and
\* currency_unit as they were; with an unknown key the settings stay as they
\* were.
C24_TemplateFrame ==
    rendered.what = "template" =>
        LET k == rendered.key
            before == rendered.before
        IN  IF k \in {"restaurant", "retail", "service"}
            THEN /\ settings.yoy_threshold = INDUSTRY_TEMPLATES[k].yoy_threshold
                 /\ settings.delta_threshold = INDUSTRY_TEMPLATES[k].delta_threshold
                 /\ settings.slope_threshold = INDUSTRY_TEMPLATES[k].slope_threshold
                 /\ settings.industry_template = k
                 /\ settings.template_kpi_targets = RECOMMENDED_METRICS[k]
                 /\ settings.window = before.window
                 /\ settings.last_n = before.last_n
                 /\ settings.missing_policy = before.missing_policy
                 /\ settings.currency_unit = before.currency_unit
            ELSE settings = before

\* The restaurant template was applied to retail settings whose window, points,
\* policy, unit and yoy threshold the user had changed.
C24_Witness ==
    /\ rendered.what = "template"
    /\ rendered.key = "restaurant"
    /\ rendered.before.industry_template = "retail"
    /\ rendered.before.yoy_threshold = Frac(-1, 2)
    /\ rendered.before.window = 36
    /\ rendered.before.last_n = SettingsLastNMin
    /\ rendered.before.missing_policy = "mark_missing"
    /\ rendered.before.currency_unit = "million_yen"
    /\ settings.yoy_threshold = Frac(-8, 100)
    /\ settings.industry_template = "restaurant"
    /\ settings.window = 36

====
